---- MODULE Spec2Model ----
(***************************************************************************)
(* Natural-language-to-SQL pipeline of the data analysis system:           *)
(* intent classification, template synthesis, identifier repair, safety    *)
(* validation, quality gate and query execution.                           *)
(*                                                                         *)
(* Text is modelled one element per character: a text is a sequence of     *)
(* glyphs.  An ASCII character is the one-character string of itself.  The *)
(* backquote, which cannot be written inside a TLA+ string, is the glyph   *)
(* BT.  A CJK character is a glyph named by its pinyin (several letters),  *)
(* so that the source's Chinese literals keep one element per character.   *)
(***************************************************************************)
EXTENDS Integers, Sequences, FiniteSets, TLC

VARIABLES
    sql,                \* validator harness: the query text under validation
    structure_result,   \* result of SQLValidator.validate_sql_structure(sql)
    query_result,       \* result of LLMAnalyst.validate_sql_query(sql)
    quality_result,     \* result of LLMAnalyst._validate_sql_quality(sql, template)
    natural_language_query, \* classifier harness: the request text
    classify_result,    \* result of SQLTemplateSystem.classify_query_intent
    params_result,      \* result of SQLTemplateSystem._extract_query_params
    intent,             \* synthesizer harness: the intent argument
    table_info,         \* synthesizer harness: the catalog argument
    extracted_params,   \* synthesizer harness: the parameters argument
    template_result,    \* result of SQLTemplateSystem.generate_from_template
    op,                 \* pipeline harness: the entry point that was called
    nl_request,         \* argument natural_language_query of generate_sql_query
    catalog,            \* argument table_schemas (the Schema Provider's catalog)
    configured,         \* base_url and model of the Generation Service are set
    original_sql,       \* argument original_sql of improve_sql_with_feedback
    feedback,           \* argument user_feedback of improve_sql_with_feedback
    sql_query,          \* argument sql_query of the executing handlers
    pc,                 \* position of the call: ready, calling, responded, handling, fixed, returned
    baseline,           \* template_sql of generate_sql_query after repair
    attempt,            \* loop variable of _call_ollama
    slept,              \* seconds _call_ollama has spent in time.sleep
    posts,              \* requests _call_ollama has sent to the Generation Service
    llm_response,       \* what _call_ollama returned
    returned,           \* the text returned to the caller of the pipeline
    outcome,            \* the path on which the call returned
    error_msg,          \* the error of the first execution in execute_custom_query
    fixed_sql,          \* what _handle_sql_error returned
    accepted,           \* the texts validate_sql_query has accepted
    executed,           \* the texts passed to DatabaseManager.execute_query, in order
    repair_sql,         \* repair harness: argument sql of _validate_and_fix_sql
    repair_schemas,     \* repair harness: argument table_schemas
    fix_table,          \* the referenced table whose columns fix_column_names was given
    fix_result,         \* (fixed_sql, corrections) of SQLValidator.fix_column_names
    repair_result,      \* what _validate_and_fix_sql returned
    llm_timeout,        \* request harness: the shared field llm_analyst.timeout
    llm_model,          \* request harness: the shared field llm_analyst.model
    available_models,   \* the model names the Generation Service lists at /api/tags
    timeout_arg,        \* per request: argument timeout of natural_language_to_sql
    req_pc,             \* per request: position in natural_language_to_sql
    original_timeout,   \* per request: the local variable original_timeout
    call_timeout,       \* per request: the timeout its requests.post was given
    call_model,         \* per request: the model its payload named
    limit_sql,          \* limit harness: the query text given to the LIMIT remediation
    helper_result,      \* result of SQLHelper.add_limit_if_missing(limit_sql)
    ensure_result,      \* limit_sql after step 4 of _validate_and_fix_sql
    lookup_column,      \* similarity harness: argument invalid_column of find_similar_column
    lookup_columns,     \* similarity harness: argument available_columns
    similar_result,     \* result of SQLValidator.find_similar_column
    declared_columns,   \* schema harness: the columns of the table as the database declares them
    schema_path,        \* the path get_table_schema took: inspector, describe, or failed
    schema_result,      \* what DatabaseManager.get_table_schema returned
    reconnect_attempt,  \* connector harness: the local reconnect_attempt of connect_with_retry
    backoff,            \* the local backoff of connect_with_retry, in seconds
    retry_pc,           \* position in connect_with_retry: while, connecting, open
    sleeps,             \* the durations asyncio.sleep was awaited with, in order
    connections         \* the connections connect_to_server has established

validatorVars == <<sql, structure_result, query_result, quality_result>>

classifierVars == <<natural_language_query, classify_result, params_result>>

templateVars == <<intent, table_info, extracted_params, template_result>>

pipelineVars == <<op, nl_request, catalog, configured, original_sql, feedback, sql_query, pc, baseline,
                  attempt, slept, posts, llm_response, returned, outcome, error_msg, fixed_sql,
                  accepted, executed>>

repairVars == <<repair_sql, repair_schemas, fix_table, fix_result, repair_result>>

requestVars == <<llm_timeout, llm_model, available_models, timeout_arg, req_pc, original_timeout,
                 call_timeout, call_model>>

limitVars == <<limit_sql, helper_result, ensure_result>>

similarVars == <<lookup_column, lookup_columns, similar_result>>

schemaVars == <<declared_columns, schema_path, schema_result>>

connectVars == <<reconnect_attempt, backoff, retry_pc, sleeps, connections>>

vars == <<validatorVars, classifierVars, templateVars, pipelineVars, repairVars, requestVars, limitVars, similarVars, schemaVars, connectVars>>

nonValidatorVars == <<classifierVars, templateVars, pipelineVars, repairVars, requestVars, limitVars, similarVars, schemaVars, connectVars>>
nonClassifierVars == <<validatorVars, templateVars, pipelineVars, repairVars, requestVars, limitVars, similarVars, schemaVars, connectVars>>
nonTemplateVars == <<validatorVars, classifierVars, pipelineVars, repairVars, requestVars, limitVars, similarVars, schemaVars, connectVars>>
nonPipelineVars == <<validatorVars, classifierVars, templateVars, repairVars, requestVars, limitVars, similarVars, schemaVars, connectVars>>
nonRepairVars == <<validatorVars, classifierVars, templateVars, pipelineVars, requestVars, limitVars, similarVars, schemaVars, connectVars>>
nonRequestVars == <<validatorVars, classifierVars, templateVars, pipelineVars, repairVars, limitVars, similarVars, schemaVars, connectVars>>
nonLimitVars == <<validatorVars, classifierVars, templateVars, pipelineVars, repairVars, requestVars, similarVars, schemaVars, connectVars>>
nonSimilarVars == <<validatorVars, classifierVars, templateVars, pipelineVars, repairVars, requestVars, limitVars, schemaVars, connectVars>>
nonSchemaVars == <<validatorVars, classifierVars, templateVars, pipelineVars, repairVars, requestVars, limitVars, similarVars, connectVars>>
nonConnectVars == <<validatorVars, classifierVars, templateVars, pipelineVars, repairVars, requestVars, limitVars, similarVars, schemaVars>>

\* an absent value and a present value v (a result not yet computed / computed)
None == <<>>
Some(v) == <<v>>

-----------------------------------------------------------------------------
(* Text primitives (Python str / re semantics, one glyph per character)    *)

BT == "backtick"

Chars(s) == [i \in 1..Len(s) |-> SubSeq(s, i, i)]

LowerLetters == Chars("abcdefghijklmnopqrstuvwxyz")
UpperLetters == Chars("ABCDEFGHIJKLMNOPQRSTUVWXYZ")
Digits == {"0", "1", "2", "3", "4", "5", "6", "7", "8", "9"}

IsLower(g) == \E i \in 1..26 : LowerLetters[i] = g
IsUpper(g) == \E i \in 1..26 : UpperLetters[i] = g
IsAsciiLetter(g) == IsLower(g) \/ IsUpper(g)
IsDigit(g) == g \in Digits
\* glyphs of more than one character that are not word characters (，)
FullwidthPunctuation == {"uFF0C"}
IsCJK(g) == Len(g) > 1 /\ g # BT /\ g \notin FullwidthPunctuation
\* \s of the re module
IsSpace(g) == g \in {" ", "\t", "\n", "\r"}
\* \w of the re module on str patterns (Unicode word characters)
IsWord(g) == IsAsciiLetter(g) \/ IsDigit(g) \/ g = "_" \/ IsCJK(g)

UpperGlyph(g) == IF IsLower(g) THEN UpperLetters[CHOOSE i \in 1..26 : LowerLetters[i] = g] ELSE g
LowerGlyph(g) == IF IsUpper(g) THEN LowerLetters[CHOOSE i \in 1..26 : UpperLetters[i] = g] ELSE g

\* str.upper() / str.lower()
Upper(t) == [i \in 1..Len(t) |-> UpperGlyph(t[i])]
Lower(t) == [i \in 1..Len(t) |-> LowerGlyph(t[i])]

\* p occurs in t starting at index i
MatchAt(t, p, i) == i >= 1 /\ i + Len(p) - 1 <= Len(t) /\ SubSeq(t, i, i + Len(p) - 1) = p

\* the `in` operator on str
Contains(t, p) == \E i \in 1..(Len(t) - Len(p) + 1) : MatchAt(t, p, i)

\* str.startswith
StartsWith(t, p) == MatchAt(t, p, 1)

\* str.count of a single character
CountGlyph(t, g) == Cardinality({i \in 1..Len(t) : t[i] = g})

\* str.strip()
Strip(t) ==
    IF \A i \in 1..Len(t) : IsSpace(t[i]) THEN <<>>
    ELSE LET first == CHOOSE i \in 1..Len(t) : ~IsSpace(t[i]) /\ \A j \in 1..(i - 1) : IsSpace(t[j])
             last  == CHOOSE i \in 1..Len(t) : ~IsSpace(t[i]) /\ \A j \in (i + 1)..Len(t) : IsSpace(t[j])
         IN SubSeq(t, first, last)

-----------------------------------------------------------------------------
(* Safety Validator                                                        *)

dangerous_keywords == <<"DROP", "DELETE", "UPDATE", "INSERT", "ALTER", "CREATE", "TRUNCATE">>

\* f' {keyword} ' in f' {sql_upper} '
SpacePadded(sql_upper, keyword) ==
    Contains(<<" ">> \o sql_upper \o <<" ">>, <<" ">> \o Chars(keyword) \o <<" ">>)

WarnNotSelect == <<"should start with SELECT">>
WarnNoFrom == <<"missing FROM clause">>
WarnDangerous(keyword) == <<"dangerous operation", keyword>>
WarnParens == <<"parentheses do not match">>
WarnNoLimit == <<"LIMIT clause suggested">>

\* SQLValidator.validate_sql_structure: (len(warnings) == 0, warnings)
validate_sql_structure(s) ==
    LET sql_upper == Upper(s)
        w1 == IF ~StartsWith(Strip(sql_upper), Chars("SELECT")) THEN <<WarnNotSelect>> ELSE <<>>
        w2 == IF ~Contains(sql_upper, Chars("FROM")) THEN <<WarnNoFrom>> ELSE <<>>
        w3 == [i \in 1..7 |-> IF SpacePadded(sql_upper, dangerous_keywords[i])
                               THEN <<WarnDangerous(dangerous_keywords[i])>> ELSE <<>>]
        w4 == IF CountGlyph(s, "(") # CountGlyph(s, ")") THEN <<WarnParens>> ELSE <<>>
        w5 == IF ~Contains(sql_upper, Chars("LIMIT")) /\ Contains(sql_upper, Chars("SELECT"))
              THEN <<WarnNoLimit>> ELSE <<>>
        warnings == w1 \o w2 \o w3[1] \o w3[2] \o w3[3] \o w3[4] \o w3[5] \o w3[6] \o w3[7] \o w4 \o w5
    IN [is_valid |-> Len(warnings) = 0, warnings |-> warnings]

\* LLMAnalyst.validate_sql_query: the boolean of the returned pair
validate_sql_query(s) ==
    IF Len(s) = 0 THEN FALSE
    ELSE LET sql_upper == Strip(Upper(s))
         IN IF \E i \in 1..7 : Contains(sql_upper, Chars(dangerous_keywords[i]))
                                /\ SpacePadded(sql_upper, dangerous_keywords[i])
            THEN FALSE
            ELSE StartsWith(sql_upper, Chars("SELECT"))

\* LLMAnalyst._validate_sql_quality
validate_sql_quality(llm_sql, template_sql) ==
    IF Len(llm_sql) = 0 \/ Len(Strip(llm_sql)) < 10 THEN FALSE
    ELSE IF ~Contains(Upper(llm_sql), Chars("SELECT")) THEN FALSE
    ELSE IF ~Contains(Upper(llm_sql), Chars("FROM")) THEN FALSE
    ELSE IF \E i \in 1..7 : SpacePadded(Upper(llm_sql), dangerous_keywords[i]) THEN FALSE
    ELSE IF Strip(Upper(llm_sql)) = Chars("SELECT 1") THEN FALSE
    ELSE TRUE

-----------------------------------------------------------------------------
(* Intent Classifier (SQLTemplateSystem.classify_query_intent)             *)

\* A trigger pattern is a regular expression of the form s1.*s2...: it is
\* kept as the sequence of its literal segments <<s1, s2, ...>>.
keyword_patterns == <<
    \* 总计, 合计, 汇总, 总和, 平均, 最大值, 最小值, 统计, 数量,
    [intent |-> "summary_stats", patterns |-> <<
        <<<<"zong603B", "ji8BA1">>>>,
        <<<<"he5408", "ji8BA1">>>>,
        <<<<"hui6C47", "zong603B">>>>,
        <<<<"zong603B", "he548C">>>>,
        <<<<"ping5E73", "jun5747">>>>,
        <<<<"zui6700", "da5927", "zhi503C">>>>,
        <<<<"zui6700", "xiao5C0F", "zhi503C">>>>,
        <<<<"tong7EDF", "ji8BA1">>>>,
        <<<<"shu6570", "liang91CF">>>>>>],
    \* 分组, 分类, 按.*统计, 各个.*的, 每种, 每类, 各地区,
    [intent |-> "group_by_stats", patterns |-> <<
        <<<<"fen5206", "zu7EC4">>>>,
        <<<<"fen5206", "lei7C7B">>>>,
        <<<<"an6309">>, <<"tong7EDF", "ji8BA1">>>>,
        <<<<"ge5404", "ge4E2A">>, <<"de7684">>>>,
        <<<<"mei6BCF", "zhong79CD">>>>,
        <<<<"mei6BCF", "lei7C7B">>>>,
        <<<<"ge5404", "di5730", "qu533A">>>>>>],
    \* 时间, 日期, 月份, 季度, 年份, 趋势, 每天, 每月, 逐年,
    [intent |-> "time_series", patterns |-> <<
        <<<<"shi65F6", "jian95F4">>>>,
        <<<<"ri65E5", "qi671F">>>>,
        <<<<"yue6708", "fen4EFD">>>>,
        <<<<"ji5B63", "du5EA6">>>>,
        <<<<"nian5E74", "fen4EFD">>>>,
        <<<<"qu8D8B", "shi52BF">>>>,
        <<<<"mei6BCF", "tian5929">>>>,
        <<<<"mei6BCF", "yue6708">>>>,
        <<<<"zhu9010", "nian5E74">>>>>>],
    \* 排名, 前.*名, 最高, 最低, 最多, 最少, 最好, 最差, top,
    [intent |-> "ranking", patterns |-> <<
        <<<<"pai6392", "ming540D">>>>,
        <<<<"qian524D">>, <<"ming540D">>>>,
        <<<<"zui6700", "gao9AD8">>>>,
        <<<<"zui6700", "di4F4E">>>>,
        <<<<"zui6700", "duo591A">>>>,
        <<<<"zui6700", "shao5C11">>>>,
        <<<<"zui6700", "hao597D">>>>,
        <<<<"zui6700", "cha5DEE">>>>,
        <<Chars("top")>>>>],
    \* 关联, 关系, 连接, 涉及, 和.*一起, 同时,
    [intent |-> "related_query", patterns |-> <<
        <<<<"guan5173", "lian8054">>>>,
        <<<<"guan5173", "xi7CFB">>>>,
        <<<<"lian8FDE", "jie63A5">>>>,
        <<<<"she6D89", "ji53CA">>>>,
        <<<<"he548C">>, <<"yi4E00", "qi8D77">>>>,
        <<<<"tong540C", "shi65F6">>>>>>],
    \* 查询, 查看, 显示, 列出, 找, 搜索,
    [intent |-> "basic_select", patterns |-> <<
        <<<<"cha67E5", "xun8BE2">>>>,
        <<<<"cha67E5", "kan770B">>>>,
        <<<<"xian663E", "shi793A">>>>,
        <<<<"lie5217", "chu51FA">>>>,
        <<<<"zhao627E">>>>,
        <<<<"sou641C", "suo7D22">>>>>>]
>>


\* re.search of a segments pattern: the segments occur in order, separated by
\* any characters other than a newline ('.' does not match "\n")
RECURSIVE SegmentsMatchFrom(_, _, _, _)
SegmentsMatchFrom(t, segs, k, start) ==
    IF k > Len(segs) THEN TRUE
    ELSE \E j \in start..(Len(t) - Len(segs[k]) + 1) :
            /\ MatchAt(t, segs[k], j)
            /\ k > 1 => \A m \in start..(j - 1) : t[m] # "\n"
            /\ SegmentsMatchFrom(t, segs, k + 1, j + Len(segs[k]))

re_search(segs, t) == SegmentsMatchFrom(t, segs, 1, 1)

\* int() of a run of decimal digits
DigitValue(g) == CHOOSE d \in 0..9 : Chars("0123456789")[d + 1] = g
RECURSIVE ParseInt(_)
ParseInt(t) == IF Len(t) = 0 THEN 0 ELSE 10 * ParseInt(SubSeq(t, 1, Len(t) - 1)) + DigitValue(t[Len(t)])

\* str() of a natural number
RECURSIVE IntToText(_)
IntToText(n) == IF n < 10 THEN <<Chars("0123456789")[n + 1]>>
                ELSE IntToText(n \div 10) \o <<Chars("0123456789")[(n % 10) + 1]>>

qian == "qian524D"   \* 前
ming == "ming540D"   \* 名

\* end index of the maximal run of glyphs satisfying the class, starting at i (i - 1 when empty)
RECURSIVE SpaceRunEnd(_, _)
SpaceRunEnd(t, i) == IF i <= Len(t) /\ IsSpace(t[i]) THEN SpaceRunEnd(t, i + 1) ELSE i - 1
RECURSIVE DigitRunEnd(_, _)
DigitRunEnd(t, i) == IF i <= Len(t) /\ IsDigit(t[i]) THEN DigitRunEnd(t, i + 1) ELSE i - 1

\* r'前\s*(\d+)\s*名' matched at index i: the captured digits, or <<>> when no match at i
TopNNamedAt(t, i) ==
    IF i > Len(t) \/ t[i] # qian THEN <<>>
    ELSE LET d1 == SpaceRunEnd(t, i + 1) + 1
             d2 == DigitRunEnd(t, d1)
             n  == SpaceRunEnd(t, d2 + 1) + 1
         IN IF d2 >= d1 /\ n <= Len(t) /\ t[n] = ming THEN SubSeq(t, d1, d2) ELSE <<>>

\* r'前(\d+)' matched at index i
TopNBareAt(t, i) ==
    IF i > Len(t) \/ t[i] # qian THEN <<>>
    ELSE SubSeq(t, i + 1, DigitRunEnd(t, i + 1))

\* r'前十|前20|前50'
TopNFixedPhrases == {<<"qian524D", "shi5341">>, <<"qian524D">> \o Chars("20"), <<"qian524D">> \o Chars("50")}

\* r'最低|最少|最小|降序|倒序'
AscendingPhrases == {<<"zui6700", "di4F4E">>, <<"zui6700", "shao5C11">>, <<"zui6700", "xiao5C0F">>, <<"jiang964D", "xu5E8F">>, <<"dao5012", "xu5E8F">>}

\* SQLTemplateSystem._extract_query_params: the two fields the synthesizer can read
\* (the table/column name hints are filled from the request and read by nothing)
extract_query_params(query) ==
    LET named == {i \in 1..Len(query) : TopNNamedAt(query, i) # <<>>}
        bare  == {i \in 1..Len(query) : TopNBareAt(query, i) # <<>>}
        first(S) == CHOOSE i \in S : \A j \in S : i <= j
        limit_value ==
            IF named # {} THEN ParseInt(TopNNamedAt(query, first(named)))
            ELSE IF (\E p \in TopNFixedPhrases : Contains(query, p)) /\ bare # {}
                 THEN ParseInt(TopNBareAt(query, first(bare)))
            ELSE 10
        sort_order == IF \E p \in AscendingPhrases : Contains(query, p) THEN "ASC" ELSE "DESC"
    IN [sort_order |-> sort_order, limit_value |-> limit_value]

\* the loop over keyword_patterns.items(): st is (matched_intent, confidence in tenths)
RECURSIVE ClassifyLoop(_, _, _)
ClassifyLoop(query_lower, k, st) ==
    IF k > Len(keyword_patterns) THEN st
    ELSE LET this_intent == keyword_patterns[k].intent
             patterns == keyword_patterns[k].patterns
             hit == \E p \in 1..Len(patterns) : re_search(patterns[p], query_lower)
         IN ClassifyLoop(query_lower, k + 1,
                IF hit /\ this_intent # st.matched_intent
                THEN [matched_intent |-> this_intent, confidence |-> 8]
                ELSE st)

\* the classifier with another default than basic_select / 0.0
classify_query_intent_default_changed(nl_query) ==
    LET st == ClassifyLoop(Lower(nl_query), 1,
                           [matched_intent |-> "unknown", confidence |-> 8])
    IN [intent |-> st.matched_intent,
        confidence |-> st.confidence,
        extracted_params |-> extract_query_params(nl_query)]

classify_query_intent(nl_query) ==
    LET st == ClassifyLoop(Lower(nl_query), 1,
                           [matched_intent |-> "basic_select", confidence |-> 0])
    IN [intent |-> st.matched_intent,
        confidence |-> st.confidence,
        extracted_params |-> extract_query_params(nl_query)]


-----------------------------------------------------------------------------
(* Template Synthesizer (SQLTemplateSystem.generate_from_template)         *)

\* A format string is the sequence of its literal parts and replacement fields.
L(t) == [field |-> "", lit |-> t]
F(n) == [field |-> n, lit |-> <<>>]

TEMPLATES == [
    basic_select |-> [
        description |-> <<"ji57FA", "chu7840", "cha67E5", "xun8BE2">>,   \* 基础查询
        default_limit |-> 100,
        sql_template |-> <<
            L(Chars("SELECT ")),
            F("columns"),
            L(Chars(" FROM ") \o <<BT>>),
            F("table"),
            L(<<BT>> \o Chars(" ")),
            F("where"),
            L(Chars(" ")),
            F("group_by"),
            L(Chars(" ")),
            F("order_by"),
            L(Chars(" ")),
            F("limit")>>],
    summary_stats |-> [
        description |-> <<"tong7EDF", "ji8BA1", "hui6C47", "zong603B">>,   \* 统计汇总
        sql_template |-> <<
            L(Chars("\nSELECT \n    COUNT(*) as ") \o <<"zong603B", "ji8BB0", "lu5F55", "shu6570">> \o Chars(",\n    ")),
            F("numeric_columns"),
            L(Chars("\nFROM ") \o <<BT>>),
            F("table"),
            L(<<BT>> \o Chars("\n")),
            F("where"),
            L(Chars("\n            "))>>,
        numeric_columns_template |-> <<
            L(Chars("AVG(") \o <<BT>>),
            F("column"),
            L(<<BT>> \o Chars(") as ") \o <<BT>>),
            F("column"),
            L(Chars("_") \o <<"ping5E73", "jun5747", "zhi503C", BT>> \o Chars(", MAX(") \o <<BT>>),
            F("column"),
            L(<<BT>> \o Chars(") as ") \o <<BT>>),
            F("column"),
            L(Chars("_") \o <<"zui6700", "da5927", "zhi503C", BT>> \o Chars(", MIN(") \o <<BT>>),
            F("column"),
            L(<<BT>> \o Chars(") as ") \o <<BT>>),
            F("column"),
            L(Chars("_") \o <<"zui6700", "xiao5C0F", "zhi503C", BT>>)>>],
    group_by_stats |-> [
        description |-> <<"fen5206", "zu7EC4", "tong7EDF", "ji8BA1">>,   \* 分组统计
        sql_template |-> <<
            L(Chars("\nSELECT \n    ") \o <<BT>>),
            F("group_column"),
            L(<<BT>> \o Chars(" as ") \o <<"fen5206", "zu7EC4">> \o Chars(",\n    COUNT(*) as ") \o <<"ji8BB0", "lu5F55", "shu6570">> \o Chars(",\n    ")),
            F("agg_columns"),
            L(Chars("\nFROM ") \o <<BT>>),
            F("table"),
            L(<<BT>> \o Chars("\n")),
            F("where"),
            L(Chars("\nGROUP BY ") \o <<BT>>),
            F("group_column"),
            L(<<BT>> \o Chars("\nORDER BY ") \o <<"ji8BB0", "lu5F55", "shu6570">> \o Chars(" DESC\n")),
            F("limit"),
            L(Chars("\n            "))>>],
    time_series |-> [
        description |-> <<"shi65F6", "jian95F4", "xu5E8F", "lie5217", "fen5206", "u6790">>,   \* 时间序列分析
        sql_template |-> <<
            L(Chars("\nSELECT \n    DATE(") \o <<BT>>),
            F("date_column"),
            L(<<BT>> \o Chars(") as ") \o <<"ri65E5", "qi671F">> \o Chars(",\n    COUNT(*) as ") \o <<"ji8BB0", "lu5F55", "shu6570">> \o Chars(",\n    ")),
            F("agg_columns"),
            L(Chars("\nFROM ") \o <<BT>>),
            F("table"),
            L(<<BT>> \o Chars("\nWHERE ") \o <<BT>>),
            F("date_column"),
            L(<<BT>> \o Chars(" IS NOT NULL\nGROUP BY DATE(") \o <<BT>>),
            F("date_column"),
            L(<<BT>> \o Chars(")\nORDER BY ") \o <<"ri65E5", "qi671F">> \o Chars("\n")),
            F("limit"),
            L(Chars("\n            "))>>],
    ranking |-> [
        description |-> <<"pai6392", "ming540D", "cha67E5", "xun8BE2">>,   \* 排名查询
        sql_template |-> <<
            L(Chars("\nSELECT \n    ") \o <<BT>>),
            F("ranking_column"),
            L(<<BT>> \o Chars(" as ") \o <<"ming540D", "cheng79F0">> \o Chars(",\n    ") \o <<BT>>),
            F("value_column"),
            L(<<BT>> \o Chars(" as ") \o <<"shu6570", "zhi503C">> \o Chars("\nFROM ") \o <<BT>>),
            F("table"),
            L(<<BT>> \o Chars("\nWHERE ") \o <<BT>>),
            F("value_column"),
            L(<<BT>> \o Chars(" IS NOT NULL\nORDER BY ") \o <<BT>>),
            F("value_column"),
            L(<<BT>> \o Chars(" DESC\n")),
            F("limit"),
            L(Chars("\n            "))>>],
    related_query |-> [
        description |-> <<"guan5173", "lian8054", "cha67E5", "xun8BE2">>,   \* 关联查询
        sql_template |-> <<
            L(Chars("\nSELECT \n    t1.") \o <<BT>>),
            F("t1_column"),
            L(<<BT>> \o Chars(" as ") \o <<"biao8868">> \o Chars("1") \o <<"zi5B57", "duan6BB5">> \o Chars(",\n    t2.") \o <<BT>>),
            F("t2_column"),
            L(<<BT>> \o Chars(" as ") \o <<"biao8868">> \o Chars("2") \o <<"zi5B57", "duan6BB5">> \o Chars(",\n    COUNT(*) as ") \o <<"guan5173", "lian8054", "shu6570">> \o Chars("\nFROM ") \o <<BT>>),
            F("table1"),
            L(<<BT>> \o Chars(" t1\nJOIN ") \o <<BT>>),
            F("table2"),
            L(<<BT>> \o Chars(" t2 ON t1.") \o <<BT>>),
            F("join_key1"),
            L(<<BT>> \o Chars(" = t2.") \o <<BT>>),
            F("join_key2"),
            L(<<BT>> \o Chars("\n")),
            F("where"),
            L(Chars("\nGROUP BY t1.") \o <<BT>>),
            F("t1_column"),
            L(<<BT>> \o Chars(", t2.") \o <<BT>>),
            F("t2_column"),
            L(<<BT>> \o Chars("\nORDER BY ") \o <<"guan5173", "lian8054", "shu6570">> \o Chars(" DESC\n")),
            F("limit"),
            L(Chars("\n            "))>>]
]

RECURSIVE Concat(_)
Concat(ts) == IF Len(ts) = 0 THEN <<>> ELSE Head(ts) \o Concat(Tail(ts))

\* sep.join(items)
RECURSIVE Join(_, _)
Join(sep, items) ==
    IF Len(items) = 0 THEN <<>>
    ELSE IF Len(items) = 1 THEN items[1]
    ELSE items[1] \o sep \o Join(sep, Tail(items))

\* str.format(**params): None when a replacement field has no value (KeyError)
Format(template, params) ==
    IF \E i \in 1..Len(template) : template[i].field # "" /\ template[i].field \notin DOMAIN params
    THEN None
    ELSE Some(Concat([i \in 1..Len(template) |->
                        IF template[i].field # "" THEN params[template[i].field] ELSE template[i].lit]))

\* the glyphs of t at the indices k in lo..hi with keep[k], in order
RECURSIVE FilterRange(_, _, _, _)
FilterRange(t, keep, lo, hi) ==
    IF lo > hi THEN <<>>
    ELSE IF lo = hi THEN (IF keep[lo] THEN <<t[lo]>> ELSE <<>>)
    ELSE FilterRange(t, keep, lo, (lo + hi) \div 2) \o FilterRange(t, keep, ((lo + hi) \div 2) + 1, hi)

\* re.sub(r'\n\s*\n', '\n', sql): a match starts at the first newline of a
\* whitespace run and the greedy \s* reaches the last newline of that run; the
\* span becomes one newline, i.e. everything after the first newline up to the
\* last newline of the run is dropped
DroppedByCollapse(t, k) ==
    /\ IsSpace(t[k])
    /\ \E i \in 1..(k - 1) : t[i] = "\n" /\ \A m \in i..k : IsSpace(t[m])
    /\ \E j \in k..Len(t) : t[j] = "\n" /\ \A m \in k..j : IsSpace(t[m])

CollapseBlankLines(t) ==
    FilterRange(t, [k \in 1..Len(t) |-> ~DroppedByCollapse(t, k)], 1, Len(t))

EndsWith(t, p) == Len(p) <= Len(t) /\ SubSeq(t, Len(t) - Len(p) + 1, Len(t)) = p

english_mappings == <<
    <<Chars("id"), Chars("ID")>>,   \* id: ID
    <<Chars("name"), <<"ming540D", "cheng79F0">>>>,   \* name: 名称
    <<Chars("title"), <<"u6807", "u9898">>>>,   \* title: 标题
    <<Chars("desc"), <<"u63CF", "u8FF0">>>>,   \* desc: 描述
    <<Chars("description"), <<"u63CF", "u8FF0">>>>,   \* description: 描述
    <<Chars("date"), <<"ri65E5", "qi671F">>>>,   \* date: 日期
    <<Chars("time"), <<"shi65F6", "jian95F4">>>>,   \* time: 时间
    <<Chars("datetime"), <<"ri65E5", "qi671F", "shi65F6", "jian95F4">>>>,   \* datetime: 日期时间
    <<Chars("create_time"), <<"u521B", "u5EFA", "shi65F6", "jian95F4">>>>,   \* create_time: 创建时间
    <<Chars("update_time"), <<"u66F4", "u65B0", "shi65F6", "jian95F4">>>>,   \* update_time: 更新时间
    <<Chars("amount"), <<"jin91D1", "e989D">>>>,   \* amount: 金额
    <<Chars("price"), <<"u4EF7", "u683C">>>>,   \* price: 价格
    <<Chars("cost"), <<"cheng6210", "u672C">>>>,   \* cost: 成本
    <<Chars("fee"), <<"u8D39", "yong7528">>>>,   \* fee: 费用
    <<Chars("money"), <<"jin91D1", "e989D">>>>,   \* money: 金额
    <<Chars("total"), <<"zong603B", "ji8BA1">>>>,   \* total: 总计
    <<Chars("sum"), <<"he5408", "ji8BA1">>>>,   \* sum: 合计
    <<Chars("count"), <<"shu6570", "liang91CF">>>>,   \* count: 数量
    <<Chars("quantity"), <<"shu6570", "liang91CF">>>>,   \* quantity: 数量
    <<Chars("qty"), <<"shu6570", "liang91CF">>>>,   \* qty: 数量
    <<Chars("number"), <<"u7F16", "u53F7">>>>,   \* number: 编号
    <<Chars("num"), <<"u7F16", "u53F7">>>>,   \* num: 编号
    <<Chars("status"), <<"u72B6", "u6001">>>>,   \* status: 状态
    <<Chars("state"), <<"u72B6", "u6001">>>>,   \* state: 状态
    <<Chars("type"), <<"lei7C7B", "u578B">>>>,   \* type: 类型
    <<Chars("category"), <<"fen5206", "lei7C7B">>>>,   \* category: 分类
    <<Chars("class"), <<"lei7C7B", "u522B">>>>,   \* class: 类别
    <<Chars("group"), <<"fen5206", "zu7EC4">>>>,   \* group: 分组
    <<Chars("user"), <<"yong7528", "hu6237">>>>,   \* user: 用户
    <<Chars("username"), <<"yong7528", "hu6237", "ming540D">>>>,   \* username: 用户名
    <<Chars("password"), <<"u5BC6", "u7801">>>>,   \* password: 密码
    <<Chars("email"), <<"u90AE", "u7BB1">>>>,   \* email: 邮箱
    <<Chars("phone"), <<"u7535", "u8BDD">>>>,   \* phone: 电话
    <<Chars("mobile"), <<"u624B", "u673A">>>>,   \* mobile: 手机
    <<Chars("address"), <<"di5730", "u5740">>>>,   \* address: 地址
    <<Chars("city"), <<"u57CE", "u5E02">>>>,   \* city: 城市
    <<Chars("province"), <<"u7701", "fen4EFD">>>>,   \* province: 省份
    <<Chars("country"), <<"u56FD", "u5BB6">>>>,   \* country: 国家
    <<Chars("region"), <<"qu533A", "u57DF">>>>,   \* region: 区域
    <<Chars("area"), <<"di5730", "qu533A">>>>,   \* area: 地区
    <<Chars("score"), <<"fen5206", "shu6570">>>>,   \* score: 分数
    <<Chars("grade"), <<"u7B49", "u7EA7">>>>,   \* grade: 等级
    <<Chars("level"), <<"u7EA7", "u522B">>>>,   \* level: 级别
    <<Chars("rate"), <<"u6BD4", "u7387">>>>,   \* rate: 比率
    <<Chars("ratio"), <<"u6BD4", "u4F8B">>>>,   \* ratio: 比例
    <<Chars("percent"), <<"u767E", "fen5206", "u6BD4">>>>,   \* percent: 百分比
    <<Chars("percentage"), <<"u767E", "fen5206", "u6BD4">>>>,   \* percentage: 百分比
    <<Chars("age"), <<"nian5E74", "u9F84">>>>,   \* age: 年龄
    <<Chars("gender"), <<"u6027", "u522B">>>>,   \* gender: 性别
    <<Chars("sex"), <<"u6027", "u522B">>>>,   \* sex: 性别
    <<Chars("birth"), <<"sheng751F", "ri65E5">>>>,   \* birth: 生日
    <<Chars("birthday"), <<"sheng751F", "ri65E5">>>>   \* birthday: 生日
>>

suffixes == <<
    <<Chars("_id"), Chars("ID")>>,   \* _id: ID
    <<Chars("_name"), <<"ming540D", "cheng79F0">>>>,   \* _name: 名称
    <<Chars("_time"), <<"shi65F6", "jian95F4">>>>,   \* _time: 时间
    <<Chars("_date"), <<"ri65E5", "qi671F">>>>,   \* _date: 日期
    <<Chars("_amount"), <<"jin91D1", "e989D">>>>,   \* _amount: 金额
    <<Chars("_price"), <<"u4EF7", "u683C">>>>,   \* _price: 价格
    <<Chars("_count"), <<"shu6570", "liang91CF">>>>,   \* _count: 数量
    <<Chars("_total"), <<"zong603B", "ji8BA1">>>>,   \* _total: 总计
    <<Chars("_status"), <<"u72B6", "u6001">>>>,   \* _status: 状态
    <<Chars("_type"), <<"lei7C7B", "u578B">>>>   \* _type: 类型
>>


\* SQLTemplateSystem._get_column_alias
RECURSIVE AliasByMapping(_, _)
AliasByMapping(col_lower, k) ==
    IF k > Len(english_mappings) THEN None
    ELSE LET eng_key == english_mappings[k][1]
         IN IF \/ eng_key = col_lower
               \/ Contains(col_lower, <<"_">> \o eng_key)
               \/ Contains(col_lower, eng_key \o <<"_">>)
            THEN Some(english_mappings[k][2])
            ELSE AliasByMapping(col_lower, k + 1)

RECURSIVE AliasBySuffix(_, _)
AliasBySuffix(col_lower, k) ==
    IF k > Len(suffixes) THEN None
    ELSE LET suffix == suffixes[k][1]
             prefix == SubSeq(col_lower, 1, Len(col_lower) - Len(suffix))
         IN IF EndsWith(col_lower, suffix)
            THEN IF \E m \in 1..Len(english_mappings) : english_mappings[m][1] = prefix
                 THEN Some(english_mappings[CHOOSE m \in 1..Len(english_mappings) :
                                               english_mappings[m][1] = prefix][2] \o suffixes[k][2])
                 ELSE Some(prefix \o suffixes[k][2])
            ELSE AliasBySuffix(col_lower, k + 1)

get_column_alias(column_name) ==
    LET col_lower == Lower(column_name)
    IN IF \E i \in 1..Len(column_name) : IsCJK(column_name[i]) THEN column_name
       ELSE IF AliasByMapping(col_lower, 1) # None THEN AliasByMapping(col_lower, 1)[1]
       ELSE IF AliasBySuffix(col_lower, 1) # None THEN AliasBySuffix(col_lower, 1)[1]
       ELSE column_name

\* the names of the columns whose category is in cats, in catalog order
RECURSIVE NamesOfCategory(_, _)
NamesOfCategory(columns, cats) ==
    IF Len(columns) = 0 THEN <<>>
    ELSE (IF Head(columns).category \in cats THEN <<Head(columns).name>> ELSE <<>>)
         \o NamesOfCategory(Tail(columns), cats)

\* seq[:n]
Take(seq, n) == SubSeq(seq, 1, IF Len(seq) < n THEN Len(seq) ELSE n)

NoNumericColumn == Chars("NULL as ") \o <<"wu65E0", "shu6570", "zhi503C", "lie5217">>   \* NULL as 无数值列

\* the degraded query of the except branch
DegradedQuery(selected_table) == Chars("SELECT * FROM ") \o <<BT>> \o selected_table \o <<BT>> \o Chars(" LIMIT 10")

\* the tail of generate_from_template: format, collapse blank lines, strip
FillTemplate(sql_template, template_params, selected_table) ==
    IF Format(sql_template, template_params) = None
    THEN DegradedQuery(selected_table)
    ELSE Strip(CollapseBlankLines(Format(sql_template, template_params)[1]))

\* list(set(a).intersection(set(b)))[0]: any common name (set order is not fixed)
CommonNames(a, b) == {a[i] : i \in 1..Len(a)} \cap {b[i] : i \in 1..Len(b)}

\* tables (table_info) is the sequence of the catalog's tables in dict order,
\* each [name, columns]; columns is a sequence of [name, category] (category ""
\* when the descriptor has none).  params (extracted_params) may lack limit_value.
\* join_key resolves the choice among several common column names.
RECURSIVE generate_from_template_with(_, _, _, _)
generate_from_template_with(intent0, tables, params, join_key) ==
    LET intent1 == IF intent0 \notin DOMAIN TEMPLATES THEN "basic_select" ELSE intent0
        template == TEMPLATES[intent1]
        sql_template == template.sql_template
    IN IF Len(tables) = 0 THEN Chars("SELECT 1")
       ELSE
       LET selected_table == tables[1].name
           columns == tables[1].columns
           numeric_cols == NamesOfCategory(columns, {"integer", "numeric"})
           text_cols == NamesOfCategory(columns, {"text"})
           date_cols == NamesOfCategory(columns, {"datetime"})
           limit_value == IF "limit_value" \in DOMAIN params
                          THEN params.limit_value ELSE 100
           base == [table |-> selected_table, limit |-> Chars("LIMIT ") \o IntToText(limit_value)]
           Q(t) == <<BT>> \o t \o <<BT>>
       IN
       IF intent1 = "basic_select" THEN
           LET select_cols == [i \in 1..Len(Take(columns, 5)) |->
                                 Q(columns[i].name) \o Chars(" as ") \o Q(get_column_alias(columns[i].name))]
           IN FillTemplate(sql_template,
                  base @@ [columns |-> IF Len(select_cols) > 0 THEN Join(Chars(", "), select_cols) ELSE Chars("*"),
                           where |-> <<>>, group_by |-> <<>>, order_by |-> Chars("ORDER BY 1")],
                  selected_table)
       ELSE IF intent1 = "summary_stats" THEN
           LET numeric_templates == [i \in 1..Len(Take(numeric_cols, 3)) |->
                                       Format(template.numeric_columns_template, [column |-> numeric_cols[i]])[1]]
           IN FillTemplate(sql_template,
                  base @@ [numeric_columns |-> IF Len(numeric_cols) > 0
                                               THEN Join(Chars(", "), numeric_templates)
                                               ELSE NoNumericColumn],
                  selected_table)
       ELSE IF intent1 = "group_by_stats" THEN
           LET group_column == IF Len(text_cols) > 0 THEN text_cols[1]
                               ELSE IF Len(columns) > 0 THEN columns[1].name
                               ELSE Chars("id")
               agg_columns == [i \in 1..Len(Take(numeric_cols, 2)) |->
                                 Chars("SUM(") \o Q(numeric_cols[i]) \o Chars(") as ") \o <<BT>> \o numeric_cols[i]
                                    \o Chars("_") \o <<"zong603B", "he548C", BT>> \o Chars(", AVG(") \o Q(numeric_cols[i])
                                    \o Chars(") as ") \o <<BT>> \o numeric_cols[i] \o Chars("_") \o <<"ping5E73", "jun5747", BT>>]
           IN FillTemplate(sql_template,
                  base @@ [group_column |-> group_column,
                           agg_columns |-> IF Len(numeric_cols) > 0
                                           THEN Join(Chars(", "), agg_columns) ELSE NoNumericColumn],
                  selected_table)
       ELSE IF intent1 = "time_series" THEN
           IF Len(date_cols) = 0
           THEN generate_from_template_with("group_by_stats", tables, params, join_key)
           ELSE
           LET agg_columns == [i \in 1..Len(Take(numeric_cols, 2)) |->
                                 Chars("SUM(") \o Q(numeric_cols[i]) \o Chars(") as ") \o <<BT>> \o numeric_cols[i]
                                    \o Chars("_") \o <<"zong603B", "ji8BA1", BT>>]
           IN FillTemplate(sql_template,
                  base @@ [date_column |-> date_cols[1],
                           agg_columns |-> IF Len(numeric_cols) > 0
                                           THEN Join(Chars(", "), agg_columns)
                                           ELSE Chars("COUNT(*) as ") \o <<"ji8BB0", "lu5F55", "shu6570">>],
                  selected_table)
       ELSE IF intent1 = "ranking" THEN
           IF Len(numeric_cols) > 0 /\ Len(text_cols) > 0
           THEN FillTemplate(sql_template,
                    base @@ [ranking_column |-> text_cols[1], value_column |-> numeric_cols[1]],
                    selected_table)
           ELSE IF Len(numeric_cols) > 0 /\ Len(columns) > 0
           THEN FillTemplate(sql_template,
                    base @@ [ranking_column |-> columns[1].name, value_column |-> numeric_cols[1]],
                    selected_table)
           ELSE generate_from_template_with("basic_select", tables, params, join_key)
       ELSE \* related_query
           IF Len(tables) >= 2
           THEN
           LET table1_cols == [i \in 1..Len(tables[1].columns) |-> tables[1].columns[i].name]
               table2_cols == [i \in 1..Len(tables[2].columns) |-> tables[2].columns[i].name]
               join_keys == CommonNames(table1_cols, table2_cols)
           IN FillTemplate(sql_template,
                  base @@ [table1 |-> tables[1].name,
                           table2 |-> tables[2].name,
                           join_key1 |-> IF join_keys # {} THEN join_key
                                         ELSE IF Len(table1_cols) > 0 THEN table1_cols[1] ELSE Chars("id"),
                           join_key2 |-> IF join_keys # {} THEN join_key
                                         ELSE IF Len(table2_cols) > 0 THEN table2_cols[1] ELSE Chars("id"),
                           t1_column |-> IF Len(table1_cols) > 0 THEN table1_cols[1] ELSE Chars("id"),
                           t2_column |-> IF Len(table2_cols) > 0 THEN table2_cols[1] ELSE Chars("id")],
                  selected_table)
           ELSE generate_from_template_with("group_by_stats", tables, params, join_key)

\* the join keys generate_from_template can pick for a catalog
JoinKeyChoices(tables) ==
    IF Len(tables) < 2 THEN {<<>>}
    ELSE LET ks == CommonNames([i \in 1..Len(tables[1].columns) |-> tables[1].columns[i].name],
                               [i \in 1..Len(tables[2].columns) |-> tables[2].columns[i].name])
         IN IF ks = {} THEN {<<>>} ELSE ks

-----------------------------------------------------------------------------
(* Identifier Repair Engine: extraction (SQLValidator)                     *)

\* the least element of a non-empty set of integers
Min(S) == CHOOSE i \in S : \A j \in S : i <= j

\* first index >= from at which p occurs in t, 0 when there is none
IndexFrom(t, p, from) ==
    LET S == {i \in from..(Len(t) - Len(p) + 1) : MatchAt(t, p, i)}
    IN IF S = {} THEN 0 ELSE Min(S)

\* first index >= from whose glyph is in the set stops, Len(t) + 1 when there is none
StopIndex(t, stops, from) ==
    LET S == {i \in from..Len(t) : t[i] \in stops}
    IN IF S = {} THEN Len(t) + 1 ELSE Min(S)

\* first index >= from whose glyph is whitespace, Len(t) + 1 when there is none
SpaceIndex(t, from) ==
    LET S == {i \in from..Len(t) : IsSpace(t[i])}
    IN IF S = {} THEN Len(t) + 1 ELSE Min(S)

\* str.replace(old, '') for a single character
RemoveGlyph(t, g) == FilterRange(t, [k \in 1..Len(t) |-> t[k] # g], 1, Len(t))

\* [a-zA-Z_]
IsIdentStart(g) == IsAsciiLetter(g) \/ g = "_"
\* [a-zA-Z0-9_]
IsIdentChar(g) == IsAsciiLetter(g) \/ IsDigit(g) \/ g = "_"

\* r'FROM\s+([^,(]+)' (IGNORECASE) tried at index i: the group, or None.
\* When the whitespace run is followed by ',' '(' or the end, \s+ gives back its
\* last character to the group.
FromGroupAt(t, i) ==
    LET ws_end == SpaceRunEnd(t, i + 4)
    IN IF ~MatchAt(Upper(t), Chars("FROM"), i) \/ ws_end < i + 4 THEN None
       ELSE IF ws_end + 1 <= Len(t) /\ t[ws_end + 1] \notin {",", "("}
            THEN Some(SubSeq(t, ws_end + 1, StopIndex(t, {",", "("}, ws_end + 1) - 1))
       ELSE IF ws_end >= i + 5 THEN Some(<<t[ws_end]>>)
       ELSE None

\* re.split(r'\s+(?:AS\s+)?\b[a-zA-Z_]\w*\b', table_str)[0]: the text before the
\* first whitespace run that is followed by an identifier
SplitHead(t) ==
    LET S == {p \in 1..Len(t) : IsSpace(t[p]) /\ SpaceRunEnd(t, p) + 1 <= Len(t)
                                 /\ IsIdentStart(t[SpaceRunEnd(t, p) + 1])}
    IN IF S = {} THEN t ELSE SubSeq(t, 1, Min(S) - 1)

\* the table name kept from a captured FROM / JOIN group
TableNameOf(group) == RemoveGlyph(Strip(SplitHead(Strip(group))), BT)

\* r'(?:JOIN|LEFT JOIN|INNER JOIN|RIGHT JOIN)\s+([^,\s]+)' tried at index i: the
\* index after the captured token, 0 without a match (every alternative ends
\* with JOIN and captures the same token)
JoinTokenEnd(t, i) ==
    LET ws_end == SpaceRunEnd(t, i + 4)
        tok_end == Min({SpaceIndex(t, ws_end + 1), StopIndex(t, {","}, ws_end + 1)})
    IN IF MatchAt(Upper(t), Chars("JOIN"), i) /\ ws_end >= i + 4 /\ tok_end > ws_end + 1
       THEN tok_end ELSE 0

\* re.findall of the JOIN pattern, scanning from index from
RECURSIVE JoinTokensFrom(_, _)
JoinTokensFrom(t, from) ==
    LET S == {i \in from..Len(t) : JoinTokenEnd(t, i) # 0}
    IN IF S = {} THEN <<>>
       ELSE <<SubSeq(t, SpaceRunEnd(t, Min(S) + 4) + 1, JoinTokenEnd(t, Min(S)) - 1)>>
            \o JoinTokensFrom(t, JoinTokenEnd(t, Min(S)))

\* SQLValidator.extract_tables_from_sql: the set behind list(set(tables))
extract_tables_from_sql(t) ==
    LET from_matches == {i \in 1..Len(t) : FromGroupAt(t, i) # None}
        from_names == IF from_matches = {} THEN {}
                      ELSE {TableNameOf(FromGroupAt(t, Min(from_matches))[1])}
        join_tokens == JoinTokensFrom(t, 1)
        join_names == {TableNameOf(join_tokens[k]) : k \in 1..Len(join_tokens)}
    IN (from_names \cup join_names) \ {<<>>}

\* re.sub(r"'(.*?)'", "'STRING'", sql) for the quote character q: a quote and
\* the next quote on the same line, with what is between, become 'STRING'
ClosingQuote(t, q, i) ==
    LET j == StopIndex(t, {q, "\n"}, i + 1)
    IN IF j <= Len(t) /\ t[j] = q THEN j ELSE 0

RECURSIVE MaskLiteralsFrom(_, _, _)
MaskLiteralsFrom(t, q, from) ==
    LET S == {i \in from..Len(t) : t[i] = q /\ ClosingQuote(t, q, i) # 0}
    IN IF S = {} THEN SubSeq(t, from, Len(t))
       ELSE SubSeq(t, from, Min(S) - 1) \o Chars("'STRING'")
            \o MaskLiteralsFrom(t, q, ClosingQuote(t, q, Min(S)) + 1)

MaskLiterals(t) == MaskLiteralsFrom(MaskLiteralsFrom(t, "'", 1), "\"", 1)

\* re.findall(r'`([^`]+)`', sql_no_strings), scanning from index from
RECURSIVE BacktickMatchesFrom(_, _)
BacktickMatchesFrom(t, from) ==
    LET close(i) == StopIndex(t, {BT}, i + 1)
        S == {i \in from..Len(t) : t[i] = BT /\ close(i) <= Len(t) /\ close(i) > i + 1}
    IN IF S = {} THEN {}
       ELSE {SubSeq(t, Min(S) + 1, close(Min(S)) - 1)} \cup BacktickMatchesFrom(t, close(Min(S)) + 1)

\* r'SELECT\s+(.*?)\s+FROM' (IGNORECASE | DOTALL) tried at index i: the group, or None
SelectClauseAt(t, i) ==
    LET ws_end == SpaceRunEnd(t, i + 6)
        E == {e \in (ws_end + 1)..Len(t) :
                IsSpace(t[e]) /\ MatchAt(Upper(t), Chars("FROM"), SpaceRunEnd(t, e) + 1)}
    IN IF ~MatchAt(Upper(t), Chars("SELECT"), i) \/ ws_end < i + 6 THEN None
       ELSE IF E # {} THEN Some(SubSeq(t, ws_end + 1, Min(E) - 1))
       ELSE IF ws_end >= i + 7 /\ MatchAt(Upper(t), Chars("FROM"), ws_end + 1) THEN Some(<<>>)
       ELSE None

\* re.sub(r'\w+\([^)]*\)', '', select_clause), scanning from index from
WordRunStart(t, i) == i >= 1 /\ i <= Len(t) /\ IsWord(t[i]) /\ (i = 1 \/ ~IsWord(t[i - 1]))
RECURSIVE WordRunEnd(_, _)
WordRunEnd(t, i) == IF i <= Len(t) /\ IsWord(t[i]) THEN WordRunEnd(t, i + 1) ELSE i - 1

CallEnd(t, i) ==
    LET open == WordRunEnd(t, i) + 1
        close == StopIndex(t, {")"}, open + 1)
    IN IF open <= Len(t) /\ t[open] = "(" /\ close <= Len(t) THEN close ELSE 0

RECURSIVE RemoveCallsFrom(_, _)
RemoveCallsFrom(t, from) ==
    LET S == {i \in from..Len(t) : IsWord(t[i]) /\ (i = from \/ ~IsWord(t[i - 1])) /\ CallEnd(t, i) # 0}
    IN IF S = {} THEN SubSeq(t, from, Len(t))
       ELSE SubSeq(t, from, Min(S) - 1) \o RemoveCallsFrom(t, CallEnd(t, Min(S)) + 1)

\* re.findall(r'\b([a-zA-Z_][a-zA-Z0-9_]*)\b', select_clause): the word runs
\* made of ASCII identifier characters only that do not start with a digit
IdentifierWords(t) ==
    {SubSeq(t, i, WordRunEnd(t, i)) : i \in {j \in 1..Len(t) :
        /\ WordRunStart(t, j)
        /\ IsIdentStart(t[j])
        /\ \A m \in j..WordRunEnd(t, j) : IsIdentChar(t[m])}}

aggregation == {Chars("COUNT"), Chars("SUM"), Chars("AVG"), Chars("MAX"), Chars("MIN"), Chars("GROUP_CONCAT")}

\* SQLValidator.extract_columns_from_sql: the set behind list(set(columns))
extract_columns_from_sql(t) ==
    LET sql_no_strings == MaskLiterals(t)
        S == {i \in 1..Len(sql_no_strings) : SelectClauseAt(sql_no_strings, i) # None}
        words == IF S = {} THEN {}
                 ELSE IdentifierWords(RemoveCallsFrom(SelectClauseAt(sql_no_strings, Min(S))[1], 1))
    IN BacktickMatchesFrom(sql_no_strings, 1) \cup {w \in words : Upper(w) \notin aggregation}

-----------------------------------------------------------------------------
(* Identifier Repair Engine: similarity and substitution (SQLValidator)    *)

AsciiFromSpace == Chars(" !\"#$%&'()*+,-./0123456789:;<=>?@ABCDEFGHIJKLMNOPQRSTUVWXYZ[\\]^_")
AsciiFromLowerA == Chars("abcdefghijklmnopqrstuvwxyz{|}~")
HexDigits == Chars("0123456789ABCDEF")
HexValue(h) == (CHOOSE i \in 1..16 : HexDigits[i] = h) - 1

\* ord() of a glyph: str comparison orders texts by code point
CodePoint(g) ==
    IF g = BT THEN 96
    ELSE IF g = "\t" THEN 9
    ELSE IF g = "\n" THEN 10
    ELSE IF g = "\r" THEN 13
    ELSE IF Len(g) > 1
    THEN LET h == Chars(SubSeq(g, Len(g) - 3, Len(g)))
         IN 4096 * HexValue(h[1]) + 256 * HexValue(h[2]) + 16 * HexValue(h[3]) + HexValue(h[4])
    ELSE IF \E i \in 1..Len(AsciiFromSpace) : AsciiFromSpace[i] = g
    THEN 31 + (CHOOSE i \in 1..Len(AsciiFromSpace) : AsciiFromSpace[i] = g)
    ELSE 96 + (CHOOSE i \in 1..Len(AsciiFromLowerA) : AsciiFromLowerA[i] = g)

\* x < y on str
TextLess(x, y) ==
    \E k \in 1..(Len(y)) :
        /\ \A m \in 1..(k - 1) : m <= Len(x) /\ x[m] = y[m]
        /\ (k = Len(x) + 1 \/ (k <= Len(x) /\ CodePoint(x[k]) < CodePoint(y[k])))

\* the greatest element of a non-empty set of integers
Max(S) == CHOOSE i \in S : \A j \in S : j <= i

\* difflib.SequenceMatcher: the number of matched glyphs of a[alo..ahi] and
\* b[blo..bhi] (find_longest_match picks the longest block, the earliest in a,
\* then the earliest in b; get_matching_blocks recurses on both sides)
RECURSIVE MatchingCount(_, _, _, _, _, _)
MatchingCount(a, b, alo, ahi, blo, bhi) ==
    IF alo > ahi \/ blo > bhi THEN 0
    ELSE
    LET RunLen(i, j) == Max({k \in 0..(ahi - i + 1) :
                                j + k - 1 <= bhi /\ \A m \in 0..(k - 1) : a[i + m] = b[j + m]})
        bestsize == Max({RunLen(i, j) : i \in alo..ahi, j \in blo..bhi})
        besti == Min({i \in alo..ahi : \E j \in blo..bhi : RunLen(i, j) = bestsize})
        bestj == Min({j \in blo..bhi : RunLen(besti, j) = bestsize})
    IN IF bestsize = 0 THEN 0
       ELSE bestsize + MatchingCount(a, b, alo, besti - 1, blo, bestj - 1)
                     + MatchingCount(a, b, besti + bestsize, ahi, bestj + bestsize, bhi)

\* SequenceMatcher(None, x, word).ratio() = 2.0 * M / T, kept as the pair <<2M, T>>
Ratio(x, word) == <<2 * MatchingCount(x, word, 1, Len(x), 1, Len(word)), Len(x) + Len(word)>>
RatioLess(r, s) == r[1] * s[2] < s[1] * r[2]

\* difflib.get_close_matches(word, possibilities, n=1, cutoff=0.6): the index
\* set of the candidates at or above the cutoff, and the one nlargest keeps
\* (greatest ratio, then greatest name)
CloseMatches(word, possibilities) ==
    {i \in 1..Len(possibilities) : 10 * Ratio(possibilities[i], word)[1] >= 6 * Ratio(possibilities[i], word)[2]}

BestCloseMatch(word, possibilities) ==
    CHOOSE i \in CloseMatches(word, possibilities) : \A j \in CloseMatches(word, possibilities) :
        \/ RatioLess(Ratio(possibilities[j], word), Ratio(possibilities[i], word))
        \/ /\ ~RatioLess(Ratio(possibilities[i], word), Ratio(possibilities[j], word))
           /\ ~TextLess(possibilities[i], possibilities[j])

\* column_mappings of find_similar_column
column_mappings == <<
     [invalid |-> <<"ding8BA2", "gou8D2D", "shu6570", "liang91CF">>,   \* 订购数量
      names |-> <<<<"shu6570", "liang91CF">>, Chars("quantity"), Chars("qty"), Chars("order_quantity"), Chars("total_quantity")>>],
     [invalid |-> <<"gou8D2D", "mai4E70", "shu6570", "liang91CF">>,   \* 购买数量
      names |-> <<<<"shu6570", "liang91CF">>, Chars("quantity"), Chars("qty"), Chars("purchase_quantity")>>],
     [invalid |-> <<"xiao9500", "shou552E", "shu6570", "liang91CF">>,   \* 销售数量
      names |-> <<<<"shu6570", "liang91CF">>, Chars("quantity"), Chars("qty"), Chars("sales_quantity")>>],
     [invalid |-> <<"ding8BA2", "gou8D2D", "jin91D1", "e989D">>,   \* 订购金额
      names |-> <<<<"jin91D1", "e989D">>, Chars("amount"), Chars("total_amount"), Chars("order_amount"), Chars("price")>>],
     [invalid |-> <<"xiao9500", "shou552E", "jin91D1", "e989D">>,   \* 销售金额
      names |-> <<<<"jin91D1", "e989D">>, Chars("amount"), Chars("sales_amount"), Chars("revenue")>>],
     [invalid |-> <<"gou8D2D", "mai4E70", "jin91D1", "e989D">>,   \* 购买金额
      names |-> <<<<"jin91D1", "e989D">>, Chars("amount"), Chars("purchase_amount")>>],
     [invalid |-> <<"ding8BA2", "gou8D2D", "shi65F6", "jian95F4">>,   \* 订购时间
      names |-> <<<<"shi65F6", "jian95F4">>, Chars("date"), Chars("datetime"), Chars("order_date"), Chars("created_at")>>],
     [invalid |-> <<"gou8D2D", "mai4E70", "shi65F6", "jian95F4">>,   \* 购买时间
      names |-> <<<<"shi65F6", "jian95F4">>, Chars("date"), Chars("datetime"), Chars("purchase_date"), Chars("buy_date")>>],
     [invalid |-> <<"xiao9500", "shou552E", "shi65F6", "jian95F4">>,   \* 销售时间
      names |-> <<<<"shi65F6", "jian95F4">>, Chars("date"), Chars("datetime"), Chars("sales_date"), Chars("sale_date")>>],
     [invalid |-> <<"ding8BA2", "dan5355", "zhuang72B6", "tai6001">>,   \* 订单状态
      names |-> <<<<"zhuang72B6", "tai6001">>, Chars("status"), Chars("order_status")>>],
     [invalid |-> <<"zhi652F", "fu4ED8", "zhuang72B6", "tai6001">>,   \* 支付状态
      names |-> <<<<"zhuang72B6", "tai6001">>, Chars("status"), Chars("payment_status")>>],
     [invalid |-> <<"fa53D1", "huo8D27", "zhuang72B6", "tai6001">>,   \* 发货状态
      names |-> <<<<"zhuang72B6", "tai6001">>, Chars("status"), Chars("delivery_status")>>]>>

InSeq(x, seq) == \E i \in 1..Len(seq) : seq[i] = x

\* SQLValidator.find_similar_column: Some(column) or None
find_similar_column(invalid_column, available_columns) ==
    LET n == Len(available_columns)
        exact == {i \in 1..n : Lower(available_columns[i]) = Lower(invalid_column)}
        partial == {i \in 1..n : \/ Contains(Lower(available_columns[i]), Lower(invalid_column))
                                 \/ Contains(Lower(invalid_column), Lower(available_columns[i]))}
        rows == {k \in 1..Len(column_mappings) : column_mappings[k].invalid = invalid_column}
        possible == IF rows = {} THEN <<>> ELSE column_mappings[Min(rows)].names
        mapped == {k \in 1..Len(possible) : InSeq(possible[k], available_columns)}
    IN IF n = 0 THEN None
       ELSE IF exact # {} THEN Some(available_columns[Min(exact)])
       ELSE IF partial # {} THEN Some(available_columns[Min(partial)])
       ELSE IF CloseMatches(invalid_column, available_columns) # {}
       THEN Some(available_columns[BestCloseMatch(invalid_column, available_columns)])
       ELSE IF mapped # {} THEN Some(possible[Min(mapped)])
       ELSE None

\* \b of the re module between t[i - 1] and t[i]
IsBoundaryAt(t, i) == (i - 1 >= 1 /\ i - 1 <= Len(t) /\ IsWord(t[i - 1])) # (i >= 1 /\ i <= Len(t) /\ IsWord(t[i]))

\* re.sub(pattern, repl, t, flags=re.IGNORECASE) for a pattern that is the
\* literal text pat, between two \b when bounded; lt is t lowered
RECURSIVE SubLiteralFrom(_, _, _, _, _, _)
SubLiteralFrom(t, lt, pat, repl, bounded, from) ==
    LET S == {i \in from..(Len(t) - Len(pat) + 1) :
                /\ MatchAt(lt, Lower(pat), i)
                /\ bounded => (IsBoundaryAt(t, i) /\ IsBoundaryAt(t, i + Len(pat)))}
    IN IF S = {} THEN SubSeq(t, from, Len(t))
       ELSE SubSeq(t, from, Min(S) - 1) \o repl \o SubLiteralFrom(t, lt, pat, repl, bounded, Min(S) + Len(pat))

SubLiteral(t, pat, repl, bounded) == SubLiteralFrom(t, Lower(t), pat, repl, bounded, 1)

\* the substitution of the quoted occurrences alone, the bare ones left in place
SubstituteColumn_quoted_only(t, column, similar_column) ==
    SubLiteral(t, <<BT>> \o column \o <<BT>>, <<BT>> \o similar_column \o <<BT>>, FALSE)

\* the two substitutions fix_column_names makes for one column
SubstituteColumn(t, column, similar_column) ==
    SubLiteral(SubLiteral(t, <<BT>> \o column \o <<BT>>, <<BT>> \o similar_column \o <<BT>>, FALSE),
               column, <<BT>> \o similar_column \o <<BT>>, TRUE)

\* the entries fix_column_names puts in corrections: <<column, similar_column>>
Corrections(t, available_columns) ==
    {<<c, find_similar_column(c, available_columns)[1]>> :
        c \in {x \in extract_columns_from_sql(t) :
                 ~InSeq(x, available_columns) /\ find_similar_column(x, available_columns) # None}}

\* all the orders in which a loop over list(set(...)) can visit the set S
Orders(S) == {o \in [1..Cardinality(S) -> S] : \A i, j \in 1..Cardinality(S) : o[i] = o[j] => i = j}

\* the orders in which fix_column_names can visit the columns it corrects
\* (the other columns of columns_in_sql leave fixed_sql alone)
ColumnOrders(t, available_columns) == Orders(Corrections(t, available_columns))

RECURSIVE SubstituteColumns(_, _)
SubstituteColumns(t, order) ==
    IF Len(order) = 0 THEN t
    ELSE SubstituteColumns(SubstituteColumn(t, Head(order)[1], Head(order)[2]), Tail(order))

\* SQLValidator.fix_column_names, the columns visited in the given order
fix_column_names(t, available_columns, order) ==
    [fixed_sql |-> SubstituteColumns(t, order), corrections |-> Corrections(t, available_columns)]

\* the priority generate_safe_sql gives a column descriptor
ColumnPriority(col) ==
    LET AnyIn(words, t) == \E w \in words : Contains(t, Chars(w))
    IN IF col.primary_key THEN 100
       ELSE IF AnyIn({"name", "title", "desc"}, Lower(col.name)) THEN 90
       ELSE IF AnyIn({"date", "time", "create", "update"}, Lower(col.name)) THEN 80
       ELSE IF AnyIn({"int", "float", "decimal", "double"}, Lower(col.type)) THEN 70
       ELSE 60

\* SQLValidator.generate_safe_sql with limit = 50
generate_safe_sql(table_name, table_schema) ==
    LET n == Len(table_schema)
        \* position of column i after the stable sort by priority, descending
        rank(i) == Cardinality({j \in 1..n :
                      \/ ColumnPriority(table_schema[j]) > ColumnPriority(table_schema[i])
                      \/ ColumnPriority(table_schema[j]) = ColumnPriority(table_schema[i]) /\ j < i}) + 1
        selected_columns == [p \in 1..(IF n < 5 THEN n ELSE 5) |->
                               table_schema[CHOOSE i \in 1..n : rank(i) = p].name]
        select_clause == Join(Chars(", "), [p \in 1..Len(selected_columns) |->
                                              <<BT>> \o selected_columns[p] \o <<BT>>])
    IN Chars("SELECT ") \o select_clause \o Chars(" FROM ") \o <<BT>> \o table_name \o <<BT>>
       \o Chars(" LIMIT 50")

-----------------------------------------------------------------------------
(* Generation pipeline (LLMAnalyst)                                        *)

\* table_schemas is the catalog in dict order: a sequence of [name, columns];
\* a column descriptor is [name, type, primary_key, category]
HasTable(table_schemas, table_name) == \E i \in 1..Len(table_schemas) : table_schemas[i].name = table_name
ColumnsOf(table_schemas, table_name) ==
    LET cols == table_schemas[CHOOSE i \in 1..Len(table_schemas) : table_schemas[i].name = table_name].columns
    IN [i \in 1..Len(cols) |-> cols[i].name]

\* LLMAnalyst._generate_safe_fallback_sql
generate_safe_fallback_sql(table_schemas) ==
    IF Len(table_schemas) = 0 THEN Chars("SELECT 1")
    ELSE generate_safe_sql(table_schemas[1].name, table_schemas[1].columns)

\* re.sub(r'(ORDER BY.*?)(?=$|;)', r'\1 LIMIT 50', sql, IGNORECASE | DOTALL),
\* scanning from index from: each ORDER BY runs to the next ';', to the end,
\* or to a newline that ends the text
RECURSIVE LimitAfterOrderByFrom(_, _)
LimitAfterOrderByFrom(t, from) ==
    LET start == IndexFrom(Upper(t), Chars("ORDER BY"), from)
        ends == {p \in (start + 8)..(Len(t) + 1) :
                    p = Len(t) + 1 \/ t[p] = ";" \/ (p = Len(t) /\ t[p] = "\n")}
    IN IF start = 0 THEN SubSeq(t, from, Len(t))
       ELSE SubSeq(t, from, Min(ends) - 1) \o Chars(" LIMIT 50") \o LimitAfterOrderByFrom(t, Min(ends))

\* step 4 of _validate_and_fix_sql
EnsureLimit(t) ==
    IF ~Contains(Upper(t), Chars("LIMIT")) /\ Contains(Upper(t), Chars("SELECT"))
    THEN IF Contains(Upper(t), Chars("ORDER BY")) THEN LimitAfterOrderByFrom(t, 1)
         ELSE t \o Chars(" LIMIT 50")
    ELSE t

\* step 3 of _validate_and_fix_sql for the tables visited in table_order: the
\* texts the loop can end with (one per order of the corrected columns)
RECURSIVE FixTables(_, _, _)
FixTables(t, table_order, table_schemas) ==
    IF Len(table_order) = 0 THEN {t}
    ELSE IF ~HasTable(table_schemas, Head(table_order))
    THEN FixTables(t, Tail(table_order), table_schemas)
    ELSE LET available_columns == ColumnsOf(table_schemas, Head(table_order))
         IN UNION {FixTables(fix_column_names(t, available_columns, o).fixed_sql,
                             Tail(table_order), table_schemas) :
                      o \in ColumnOrders(t, available_columns)}

\* LLMAnalyst._validate_and_fix_sql: the set of texts it can return (the
\* iteration orders of list(set(...)) are not fixed)
validate_and_fix_sql(t, table_schemas) ==
    LET tables == extract_tables_from_sql(t)
    IN IF tables = {} THEN {generate_safe_fallback_sql(table_schemas)}
       ELSE {EnsureLimit(x) : x \in UNION {FixTables(t, o, table_schemas) : o \in Orders(tables)}}

TemplateComment == Chars("-- ") \o <<"ji57FA", "yu4E8E", "mu6A21", "ban677F", "sheng751F", "cheng6210">> \o Chars(": ")   \* -- 基于模板生成:

\* LLMAnalyst._generate_sql_from_template: the set of texts it can return
generate_sql_from_template(nl_query, table_schemas) ==
    LET classified == classify_query_intent(nl_query)
    IN {TemplateComment \o TEMPLATES[classified.intent].description \o Chars("\n")
          \o generate_from_template_with(classified.intent, table_schemas,
                                         classified.extracted_params, join_key) :
           join_key \in JoinKeyChoices(table_schemas)}

\* re.sub(r'```(?:sql)?|```', '', text), scanning from index from
RECURSIVE RemoveFencesFrom(_, _)
RemoveFencesFrom(t, from) ==
    LET start == IndexFrom(t, <<BT, BT, BT>>, from)
        after == IF MatchAt(t, Chars("sql"), start + 3) THEN start + 6 ELSE start + 3
    IN IF start = 0 THEN SubSeq(t, from, Len(t))
       ELSE SubSeq(t, from, start - 1) \o RemoveFencesFrom(t, after)

\* re.search(r'(SELECT\s+.*?)(?=;|$)', text, IGNORECASE | DOTALL): the group, or None
FirstStatement(t) ==
    LET S == {i \in 1..Len(t) : MatchAt(Upper(t), Chars("SELECT"), i) /\ SpaceRunEnd(t, i + 6) >= i + 6}
        ends == {p \in (SpaceRunEnd(t, Min(S) + 6) + 1)..(Len(t) + 1) :
                    p = Len(t) + 1 \/ t[p] = ";" \/ (p = Len(t) /\ t[p] = "\n")}
    IN IF S = {} THEN None ELSE Some(SubSeq(t, Min(S), Min(ends) - 1))

\* the clean-up both Generation Service callers apply to the response
CleanResponse(response) ==
    LET unfenced == Strip(RemoveFencesFrom(Strip(response), 1))
    IN IF FirstStatement(unfenced) # None THEN Strip(FirstStatement(unfenced)[1]) ELSE unfenced

\* LLMAnalyst._optimize_sql_with_llm, given what _call_ollama returned
optimize_sql_with_llm(response, template_sql) ==
    IF ~StartsWith(Upper(CleanResponse(response)), Chars("SELECT")) THEN template_sql
    ELSE CleanResponse(response)

AutoFixComment == Chars("-- ") \o <<"zi81EA", "dong52A8", "xiu4FEE", "zheng6B63", "lie5217", "ming540D", "cuo9519", "wu8BEF">> \o Chars("\n")   \* -- 自动修正列名错误
FeedbackComment == Chars("-- ") \o <<"gen6839", "ju636E", "yong7528", "hu6237", "fan53CD", "kui9988", "gai6539", "jin8FDB", "de7684">> \o Chars("SQL\n-- ") \o <<"fan53CD", "kui9988">> \o Chars(": ")   \* -- 根据用户反馈改进的SQL\n-- 反馈:

\* LLMAnalyst._improve_sql_with_llm_feedback, given what _call_ollama returned:
\* the set of texts it can return
improve_sql_with_llm_feedback(response, user_feedback, table_schemas) ==
    {FeedbackComment \o Take(user_feedback, 100) \o Chars("\n") \o improved_sql :
        improved_sql \in validate_and_fix_sql(CleanResponse(response), table_schemas)}

-----------------------------------------------------------------------------
(* Validator harness: a query text is drawn, the three checks are applied  *)

Heads == {"SELECT a", "  select (a", "SHOW a"}
Froms == {" FROM t", " from t)", ""}
Tails == {"", " LIMIT 5"}
PreDelims == {" ", "\n", "\t", ";", "("}
PostDelims == {" ", "\n", "\t", ";", ")", ""}
KeywordSpellings ==
    {"DROP", "DELETE", "UPDATE", "INSERT", "ALTER", "CREATE", "TRUNCATE",
     "drop", "Delete", "update", "insert", "Alter", "create", "truncate"}
\* a dangerous word inside a longer identifier
EmbeddedWords == {" created_at", " update_time", " dropped", " t_insert"}

\* keyword in the middle of a SELECT, delimited by pre and post
DelimitedQueries ==
    {Chars("SELECT a FROM t") \o Chars(pre) \o Chars(k) \o Chars(post) \o Chars(tl) :
        pre \in PreDelims, k \in KeywordSpellings, post \in PostDelims, tl \in Tails}
\* keyword at the very start of the text
LeadingQueries ==
    {Chars(k) \o Chars(post) \o Chars("TABLE t; SELECT * FROM t LIMIT 5") :
        k \in KeywordSpellings, post \in PostDelims \ {""}}
\* no dangerous token: only the other rules vary
PlainQueries ==
    {Chars(h) \o Chars(e) \o Chars(f) \o Chars(tl) :
        h \in Heads, e \in EmbeddedWords \cup {""}, f \in Froms, tl \in Tails}

ValidatorInputs == DelimitedQueries \cup LeadingQueries \cup PlainQueries

TemplateForGate == Chars("SELECT a, b, c FROM t ORDER BY a LIMIT 10")

\* the harness variables of a component that a specification does not exercise
ValidatorIdle == sql = <<>> /\ structure_result = None /\ query_result = None /\ quality_result = None
ClassifierIdle == natural_language_query = <<>> /\ classify_result = None /\ params_result = None
TemplateIdle == intent = "" /\ table_info = <<>> /\ extracted_params = <<>> /\ template_result = None
PipelineIdle ==
    /\ op = "" /\ nl_request = <<>> /\ catalog = <<>> /\ configured = FALSE
    /\ original_sql = <<>> /\ feedback = <<>> /\ sql_query = <<>>
    /\ pc = "" /\ baseline = None /\ attempt = 0 /\ slept = 0 /\ posts = 0
    /\ llm_response = None /\ returned = None /\ outcome = ""
    /\ error_msg = None /\ fixed_sql = None /\ accepted = {} /\ executed = <<>>
RepairIdle ==
    /\ repair_sql = <<>> /\ repair_schemas = <<>>
    /\ fix_table = None /\ fix_result = None /\ repair_result = None
RequestIdle ==
    /\ llm_timeout = 0 /\ llm_model = "" /\ available_models = <<>>
    /\ timeout_arg = <<>> /\ req_pc = <<>> /\ original_timeout = <<>>
    /\ call_timeout = <<>> /\ call_model = <<>>

LimitIdle ==
    /\ limit_sql = <<>> /\ helper_result = None /\ ensure_result = None

SimilarIdle ==
    /\ lookup_column = <<>> /\ lookup_columns = <<>> /\ similar_result = None

SchemaIdle ==
    /\ declared_columns = <<>> /\ schema_path = "" /\ schema_result = None

ConnectIdle ==
    /\ reconnect_attempt = 0 /\ backoff = 0 /\ retry_pc = "" /\ sleeps = <<>> /\ connections = 0

InitValidator ==
    /\ sql \in ValidatorInputs
    /\ structure_result = None
    /\ query_result = None
    /\ quality_result = None
    /\ ClassifierIdle /\ TemplateIdle /\ PipelineIdle /\ RepairIdle /\ RequestIdle /\ LimitIdle /\ SimilarIdle /\ SchemaIdle /\ ConnectIdle

ValidateStructure ==
    /\ structure_result = None
    /\ structure_result' = Some(validate_sql_structure(sql))
    /\ UNCHANGED <<sql, query_result, quality_result>>
    /\ UNCHANGED nonValidatorVars

ValidateQuery ==
    /\ query_result = None
    /\ query_result' = Some(validate_sql_query(sql))
    /\ UNCHANGED <<sql, structure_result, quality_result>>
    /\ UNCHANGED nonValidatorVars

ValidateQuality ==
    /\ quality_result = None
    /\ quality_result' = Some(validate_sql_quality(sql, TemplateForGate))
    /\ UNCHANGED <<sql, structure_result, query_result>>
    /\ UNCHANGED nonValidatorVars

NextValidator == ValidateStructure \/ ValidateQuery \/ ValidateQuality

SpecValidator == InitValidator /\ [][NextValidator]_vars

-----------------------------------------------------------------------------
(* Classifier harness: a request is drawn, classified, its parameters read *)

MaxRequestWords == 3

RequestWords ==
    {
        <<"tong7EDF", "ji8BA1">>,   \* 统计
        <<"an6309">>,   \* 按
        <<"shi65F6", "jian95F4">>,   \* 时间
        <<"pai6392", "ming540D">>,   \* 排名
        <<"qian524D">>,   \* 前
        <<"ming540D">>,   \* 名
        <<"shi5341">>,   \* 十
        <<"guan5173", "lian8054">>,   \* 关联
        <<"cha67E5", "xun8BE2">>,   \* 查询
        <<"zui6700", "di4F4E">>,   \* 最低
        <<"jiang964D", "xu5E8F">>,   \* 降序
        Chars(" "),
        Chars("5"),
        Chars("20"),
        Chars("top"),
        Chars("Top "),
        Chars("sales"),
        Chars("\n")
    }

RECURSIVE Requests(_)
Requests(n) ==
    IF n = 0 THEN {<<>>}
    ELSE Requests(n - 1) \cup {r \o w : r \in Requests(n - 1), w \in RequestWords}

InitClassifier ==
    /\ natural_language_query \in Requests(MaxRequestWords) \ {<<>>}
    /\ classify_result = None
    /\ params_result = None
    /\ ValidatorIdle /\ TemplateIdle /\ PipelineIdle /\ RepairIdle /\ RequestIdle /\ LimitIdle /\ SimilarIdle /\ SchemaIdle /\ ConnectIdle

ClassifyQueryIntent ==
    /\ classify_result = None
    /\ classify_result' = Some(classify_query_intent(natural_language_query))
    /\ UNCHANGED <<natural_language_query, params_result>>
    /\ UNCHANGED nonClassifierVars

ExtractQueryParams ==
    /\ params_result = None
    /\ params_result' = Some(extract_query_params(natural_language_query))
    /\ UNCHANGED <<natural_language_query, classify_result>>
    /\ UNCHANGED nonClassifierVars

NextClassifier == ClassifyQueryIntent \/ ExtractQueryParams

SpecClassifier == InitClassifier /\ [][NextClassifier]_vars

-----------------------------------------------------------------------------
(* Synthesizer harness: an intent, a catalog and parameters are drawn and   *)
(* generate_from_template is applied                                        *)

MaxColumns == 3

\* the column at position i of the first table is named ColumnNames[i]
ColumnNames == <<Chars("id"), Chars("product_name"), Chars("amount"), Chars("order_date"),
                 Chars("qty"), Chars("note")>>

\* the value of col.get('category'): "" when the descriptor has no category
Categories == {"integer", "numeric", "text", "datetime", ""}

RECURSIVE ColumnLists(_)
ColumnLists(n) ==
    IF n = 0 THEN {<<>>}
    ELSE ColumnLists(n - 1) \cup
         {Append(cs, [name |-> ColumnNames[n], category |-> c]) :
             cs \in {x \in ColumnLists(n - 1) : Len(x) = n - 1}, c \in Categories}

SecondTables ==
    {[name |-> Chars("orders"),
      columns |-> <<[name |-> Chars("id"), category |-> "integer"],
                    [name |-> Chars("amount"), category |-> "numeric"]>>],
     [name |-> Chars("empty"), columns |-> <<>>]}

Catalogs ==
    {<<[name |-> Chars("sales"), columns |-> cs]>> : cs \in ColumnLists(MaxColumns)} \cup
    {<<[name |-> Chars("sales"), columns |-> cs], t2>> : cs \in ColumnLists(MaxColumns), t2 \in SecondTables}

IntentArguments ==
    {"basic_select", "summary_stats", "group_by_stats", "time_series", "ranking", "related_query", "unknown"}

ParamArguments ==
    {[sort_order |-> "DESC"],
     [sort_order |-> "DESC", limit_value |-> 5],
     [sort_order |-> "ASC", limit_value |-> 10]}

InitTemplate ==
    /\ intent \in IntentArguments
    /\ table_info \in Catalogs
    /\ extracted_params \in ParamArguments
    /\ template_result = None
    /\ ValidatorIdle /\ ClassifierIdle /\ PipelineIdle /\ RepairIdle /\ RequestIdle /\ LimitIdle /\ SimilarIdle /\ SchemaIdle /\ ConnectIdle

GenerateFromTemplate ==
    /\ template_result = None
    /\ \E join_key \in JoinKeyChoices(table_info) :
          template_result' = Some(generate_from_template_with(intent, table_info, extracted_params, join_key))
    /\ UNCHANGED <<intent, table_info, extracted_params>>
    /\ UNCHANGED nonTemplateVars

NextTemplate == GenerateFromTemplate

SpecTemplate == InitTemplate /\ [][NextTemplate]_vars

-----------------------------------------------------------------------------
(* Pipeline harness: one call of generate_sql_query, improve_sql_with_feedback, *)
(* execute_custom_query or execute_sql_and_get_results, with the Generation    *)
(* Service and the Query Executor answering in any way they can                *)

max_retries == 3
retry_delay == 2

EmptyRequestMessage == <<"qing8BF7", "shu8F93", "ru5165", "cha67E5", "xun8BE2", "wen95EE", "ti9898">>   \* 请输入查询问题
EmptyOriginalMessage == <<"u539F", "u59CB">> \o Chars("SQL") \o <<"u4E3A", "u7A7A">>   \* 原始SQL为空
\* the texts _call_ollama returns for a status 500 with the body text, a
\* response result without message content, a refused connection, a timeout,
\* an exception
StatusErrorMessage(text) == Chars("Ollama API") \o <<"cuo9519", "wu8BEF">> \o Chars(": ") \o <<"zhuang72B6", "tai6001", "u7801">> \o Chars(" 500, ") \o <<"u54CD", "u5E94">> \o Chars(": ") \o text
FormatErrorMessage(result) == <<"u54CD", "u5E94", "u683C", "u5F0F", "cuo9519", "wu8BEF">> \o Chars(": ") \o result
ConnectionErrorMessage == <<"wu65E0", "u6CD5", "lian8FDE", "jie63A5", "u5230">> \o Chars("Ollama") \o <<"u670D", "u52A1", "uFF0C", "qing8BF7", "u786E", "u4FDD">> \o Chars("Ollama") \o <<"zheng6B63", "u5728", "u8FD0", "u884C", "u5728">> \o Chars(" http://localhost:11434")
TimeoutMessage == <<"qing8BF7", "u6C42", "u8D85", "shi65F6", "uFF0C", "qing8BF7", "u68C0", "cha67E5">> \o Chars("Ollama") \o <<"u670D", "u52A1", "zhuang72B6", "tai6001">>
UnknownErrorMessage == <<"u672A", "u77E5", "cuo9519", "wu8BEF">> \o Chars(": boom")
\* DatabaseManager.execute_query: the prefix of the message in the error column
ExecuteErrorPrefix == <<"u6267", "u884C", "cha67E5", "xun8BE2", "shi65F6", "chu51FA", "cuo9519">> \o Chars(": ")   \* 执行查询时出错:

SalesTable ==
    [name |-> Chars("sales"),
     columns |-> <<[name |-> Chars("id"), type |-> Chars("INT"), primary_key |-> TRUE, category |-> "integer"],
                   [name |-> Chars("product_name"), type |-> Chars("VARCHAR(50)"), primary_key |-> FALSE, category |-> "text"],
                   [name |-> Chars("amount"), type |-> Chars("DECIMAL(10,2)"), primary_key |-> FALSE, category |-> "numeric"]>>]
OrdersTable ==
    [name |-> Chars("orders"),
     columns |-> <<[name |-> Chars("id"), type |-> Chars("INT"), primary_key |-> TRUE, category |-> "integer"],
                   [name |-> Chars("order_date"), type |-> Chars("DATETIME"), primary_key |-> FALSE, category |-> "datetime"]>>]

GenerateCatalogs == {<<>>, <<SalesTable>>, <<SalesTable, OrdersTable>>}
RepairCatalogs == {<<>>, <<SalesTable>>}

GenerateRequests ==
    {<<"tong7EDF", "ji8BA1">>,                                   \* 统计
     <<"pai6392", "ming540D", "qian524D">> \o Chars("5") \o <<"ming540D">>,   \* 排名前5名
     <<"guan5173", "lian8054", "cha67E5", "xun8BE2">>,           \* 关联查询
     Chars("sales"),
     Chars("  ")}

Misspelled == Chars("SELECT ") \o <<BT>> \o Chars("prodcut_name") \o <<BT>> \o Chars(" FROM ") \o <<BT>> \o Chars("sales") \o <<BT>> \o Chars(" LIMIT 5")
WellSpelled == Chars("SELECT ") \o <<BT>> \o Chars("product_name") \o <<BT>> \o Chars(" FROM ") \o <<BT>> \o Chars("sales") \o <<BT>> \o Chars(" LIMIT 5")

\* the bodies the Generation Service sends with a status 500 (response.text)
ErrorBodies == {<<>>, Chars("{\"error\":\"failed to select model\"}")}

\* the JSON results without message content the Generation Service answers
\* with, as str(result) prints them
MalformedResults == {Chars("{}"), Chars("{'response': 'SELECT * FROM users'}")}

\* the contents the Generation Service answers with
Contents ==
    {<<BT, BT, BT>> \o Chars("sql\nSELECT ") \o <<BT>> \o Chars("product_name") \o <<BT>> \o Chars(", ") \o <<BT>>
        \o Chars("amount") \o <<BT>> \o Chars(" FROM ") \o <<BT>> \o Chars("sales") \o <<BT>> \o Chars(" ORDER BY ")
        \o <<BT>> \o Chars("amount") \o <<BT>> \o Chars(" DESC;\n") \o <<BT, BT, BT>>,
     Chars("DROP TABLE users; SELECT * FROM users"),
     Misspelled,
     Chars("SELECT 1"),
     Chars("Sorry, I cannot write that query. ")}

\* a prior query with a column no valid column resembles, and no LIMIT clause
UnmatchedNoLimit == Chars("SELECT ") \o <<BT>> \o Chars("zzz") \o <<BT>> \o Chars(" FROM ") \o <<BT>> \o Chars("sales") \o <<BT>>

OriginalQueries == {Misspelled, WellSpelled, UnmatchedNoLimit, <<>>}

Feedbacks == {Chars("Unknown column 'prodcut_name' in 'field list'"), Chars("show the totals instead"), <<>>}

SubmittedQueries ==
    {Misspelled,
     Chars("SELECT * FROM missing"),
     Chars("DROP TABLE sales"),
     Chars("SELECT 1;DROP TABLE sales"),
     Chars(" ")}

\* the messages the Query Executor puts in the error column
ExecuteErrors ==
    {ExecuteErrorPrefix \o Chars("(1054, \"Unknown column 'prodcut_name' in 'field list'\")"),
     ExecuteErrorPrefix \o Chars("(1146, \"Table 'example_an.missing' doesn't exist\")"),
     ExecuteErrorPrefix \o Chars("(1064, \"You have an error in your SQL syntax\")")}

\* what DatabaseManager.execute_query can answer: rows (None) or an error message
QueryResults == {None} \cup {Some(m) : m \in ExecuteErrors}

Limits == {200}

Operations ==
    {"generate_sql_query", "improve_sql_with_feedback", "execute_custom_query",
     "mcp_service.execute_sql_and_get_results", "config.execute_sql_and_get_results"}

InitPipeline ==
    /\ op \in Operations
    /\ nl_request \in (IF op = "generate_sql_query" THEN GenerateRequests ELSE {<<>>})
    /\ catalog \in (IF op = "generate_sql_query" THEN GenerateCatalogs
                    ELSE IF op \in {"improve_sql_with_feedback", "execute_custom_query"} THEN RepairCatalogs
                    ELSE {<<>>})
    /\ configured \in (IF op = "generate_sql_query" THEN BOOLEAN ELSE {TRUE})
    /\ original_sql \in (IF op = "improve_sql_with_feedback" THEN OriginalQueries ELSE {<<>>})
    /\ feedback \in (IF op = "improve_sql_with_feedback" THEN Feedbacks ELSE {<<>>})
    /\ sql_query \in (IF op \in {"execute_custom_query", "mcp_service.execute_sql_and_get_results",
                                 "config.execute_sql_and_get_results"}
                      THEN SubmittedQueries ELSE {<<>>})
    /\ pc = "ready" /\ baseline = None /\ attempt = 0 /\ slept = 0 /\ posts = 0
    /\ llm_response = None /\ returned = None /\ outcome = ""
    /\ error_msg = None /\ fixed_sql = None /\ accepted = {} /\ executed = <<>>
    /\ ValidatorIdle /\ ClassifierIdle /\ TemplateIdle /\ RepairIdle /\ RequestIdle /\ LimitIdle /\ SimilarIdle /\ SchemaIdle /\ ConnectIdle

\* LLMAnalyst.generate_sql_query up to its Generation Service call
GenerateSqlQuery ==
    /\ op = "generate_sql_query" /\ pc = "ready"
    /\ IF Strip(nl_request) = <<>>
       THEN /\ returned' = Some(EmptyRequestMessage)
            /\ outcome' = "input_error"
            /\ pc' = "returned"
            /\ UNCHANGED baseline
       ELSE \E template_sql \in generate_sql_from_template(nl_request, catalog) :
            \E fixed \in validate_and_fix_sql(template_sql, catalog) :
               /\ baseline' = Some(fixed)
               /\ IF configured
                  THEN pc' = "calling" /\ UNCHANGED <<returned, outcome>>
                  ELSE pc' = "returned" /\ returned' = Some(fixed) /\ outcome' = "template_only"
    /\ UNCHANGED <<op, nl_request, catalog, configured, original_sql, feedback, sql_query, attempt, slept,
                   posts, llm_response, error_msg, fixed_sql, accepted, executed>>
    /\ UNCHANGED nonPipelineVars

\* improve_sql_with_feedback up to its Generation Service call: what it
\* returns at once, or the path "call" when it goes on to _call_ollama
ImproveHead(original, fb, table_schemas) ==
    IF Strip(original) = <<>> THEN {[path |-> "input_error", text |-> EmptyOriginalMessage]}
    ELSE IF Strip(fb) = <<>> THEN {[path |-> "unchanged", text |-> original]}
    ELSE {IF Contains(fb, Chars("Unknown column")) /\ f # original
          THEN [path |-> "cheap_path", text |-> AutoFixComment \o f]
          ELSE [path |-> "call", text |-> <<>>] :
             f \in validate_and_fix_sql(original, table_schemas)}

\* LLMAnalyst.improve_sql_with_feedback up to its Generation Service call
ImproveSqlWithFeedback ==
    /\ op = "improve_sql_with_feedback" /\ pc = "ready"
    /\ \E h \in ImproveHead(original_sql, feedback, catalog) :
          IF h.path = "call"
          THEN pc' = "calling" /\ UNCHANGED <<returned, outcome>>
          ELSE pc' = "returned" /\ returned' = Some(h.text) /\ outcome' = h.path
    /\ UNCHANGED <<op, nl_request, catalog, configured, original_sql, feedback, sql_query, baseline, attempt,
                   slept, posts, llm_response, error_msg, fixed_sql, accepted, executed>>
    /\ UNCHANGED nonPipelineVars

\* what one attempt of _call_ollama leaves unchanged
AttemptFrame ==
    /\ UNCHANGED <<op, nl_request, catalog, configured, original_sql, feedback, sql_query, baseline,
                   returned, outcome, error_msg, fixed_sql, accepted, executed>>
    /\ UNCHANGED nonPipelineVars

\* the retry with the last attempt not recognised: one more request is sent
RetryOrReturn_one_more_attempt(message) ==
    IF attempt = max_retries
    THEN llm_response' = Some(message) /\ pc' = "responded" /\ UNCHANGED <<attempt, slept>>
    ELSE attempt' = attempt + 1 /\ slept' = slept + retry_delay /\ UNCHANGED <<llm_response, pc>>

\* a failed attempt that _call_ollama retries: the message is returned on the
\* last attempt, otherwise the loop sleeps retry_delay and goes on
RetryOrReturn(message) ==
    IF attempt = max_retries - 1
    THEN llm_response' = Some(message) /\ pc' = "responded" /\ UNCHANGED <<attempt, slept>>
    ELSE attempt' = attempt + 1 /\ slept' = slept + retry_delay /\ UNCHANGED <<llm_response, pc>>

\* _call_ollama: the service answers 200 with a message content
CallOllamaContent ==
    /\ pc = "calling"
    /\ posts' = posts + 1
    /\ \E content \in Contents : llm_response' = Some(Strip(content))
    /\ pc' = "responded"
    /\ UNCHANGED <<attempt, slept>>
    /\ AttemptFrame

\* _call_ollama: the service answers with a status other than 200
CallOllamaStatusError ==
    /\ pc = "calling"
    /\ posts' = posts + 1
    /\ \E text \in ErrorBodies : RetryOrReturn(StatusErrorMessage(text))
    /\ AttemptFrame

\* _call_ollama: the service answers 200 without a message content
CallOllamaFormatError ==
    /\ pc = "calling"
    /\ posts' = posts + 1
    /\ \E result \in MalformedResults : llm_response' = Some(FormatErrorMessage(result))
    /\ pc' = "responded"
    /\ UNCHANGED <<attempt, slept>>
    /\ AttemptFrame

\* _call_ollama: requests.exceptions.ConnectionError
CallOllamaConnectionError ==
    /\ pc = "calling"
    /\ posts' = posts + 1
    /\ RetryOrReturn(ConnectionErrorMessage)
    /\ AttemptFrame

\* _call_ollama: requests.exceptions.Timeout
CallOllamaTimeout ==
    /\ pc = "calling"
    /\ posts' = posts + 1
    /\ RetryOrReturn(TimeoutMessage)
    /\ AttemptFrame

\* _call_ollama: any other exception
CallOllamaException ==
    /\ pc = "calling"
    /\ posts' = posts + 1
    /\ llm_response' = Some(UnknownErrorMessage)
    /\ pc' = "responded"
    /\ UNCHANGED <<attempt, slept>>
    /\ AttemptFrame

\* LLMAnalyst.generate_sql_query after _call_ollama returned
GenerateSqlQueryFinish ==
    /\ op = "generate_sql_query" /\ pc = "responded"
    /\ \E optimized_sql \in validate_and_fix_sql(optimize_sql_with_llm(llm_response[1], baseline[1]), catalog) :
          IF validate_sql_quality(optimized_sql, baseline[1])
          THEN returned' = Some(optimized_sql) /\ outcome' = "llm_optimized"
          ELSE returned' = Some(baseline[1]) /\ outcome' = "template_kept"
    /\ pc' = "returned"
    /\ UNCHANGED <<op, nl_request, catalog, configured, original_sql, feedback, sql_query, baseline, attempt,
                   slept, posts, llm_response, error_msg, fixed_sql, accepted, executed>>
    /\ UNCHANGED nonPipelineVars

\* LLMAnalyst._improve_sql_with_llm_feedback after _call_ollama returned; under
\* execute_custom_query the result goes back to _handle_sql_error
ImproveSqlWithFeedbackFinish ==
    /\ op \in {"improve_sql_with_feedback", "execute_custom_query"} /\ pc = "responded"
    /\ \E commented_sql \in improve_sql_with_llm_feedback(llm_response[1], feedback, catalog) :
          IF op = "improve_sql_with_feedback"
          THEN returned' = Some(commented_sql) /\ outcome' = "llm_feedback" /\ pc' = "returned"
               /\ UNCHANGED fixed_sql
          ELSE fixed_sql' = Some(commented_sql) /\ pc' = "fixed" /\ UNCHANGED <<returned, outcome>>
    /\ UNCHANGED <<op, nl_request, catalog, configured, original_sql, feedback, sql_query, baseline, attempt,
                   slept, posts, llm_response, error_msg, accepted, executed>>
    /\ UNCHANGED nonPipelineVars

\* re.sub(r'`?(\w+)`?', repl, t, count=1): the first word, with the backticks
\* around it, becomes repl
SubFirstWord(t, repl) ==
    LET S == {p \in 1..Len(t) : IsWord(t[p]) \/ (t[p] = BT /\ p + 1 <= Len(t) /\ IsWord(t[p + 1]))}
        word == IF t[Min(S)] = BT THEN Min(S) + 1 ELSE Min(S)
        after == IF WordRunEnd(t, word) + 1 <= Len(t) /\ t[WordRunEnd(t, word) + 1] = BT
                 THEN WordRunEnd(t, word) + 2 ELSE WordRunEnd(t, word) + 1
    IN IF S = {} THEN t
       ELSE SubSeq(t, 1, Min(S) - 1) \o repl \o SubSeq(t, after, Len(t))

\* the column repairs _handle_sql_error can return for an "Unknown column"
\* error: the repair for the first referenced catalog table that has corrections
ColumnRepairs(t, table_schemas) ==
    UNION {{fix_column_names(t, ColumnsOf(table_schemas, table_name), o).fixed_sql :
               o \in ColumnOrders(t, ColumnsOf(table_schemas, table_name))} :
             table_name \in {x \in extract_tables_from_sql(t) :
                                /\ HasTable(table_schemas, x)
                                /\ Corrections(t, ColumnsOf(table_schemas, x)) # {}}}

\* str.rstrip(';')
RECURSIVE RStripSemicolons(_)
RStripSemicolons(t) ==
    IF Len(t) > 0 /\ t[Len(t)] = ";" THEN RStripSemicolons(SubSeq(t, 1, Len(t) - 1)) ELSE t

\* what the executing handlers leave unchanged
ExecuteFrame ==
    /\ UNCHANGED <<op, nl_request, catalog, configured, sql_query, baseline, attempt, slept, posts,
                   llm_response, returned>>
    /\ UNCHANGED nonPipelineVars

\* DataAnalysisApp.execute_custom_query up to the Query Executor's first answer
ExecuteCustomQuery ==
    /\ op = "execute_custom_query" /\ pc = "ready"
    /\ IF Strip(sql_query) = <<>>
       THEN outcome' = "input_error" /\ pc' = "returned" /\ UNCHANGED <<accepted, executed, error_msg>>
       ELSE IF ~validate_sql_query(sql_query)
       THEN outcome' = "rejected" /\ pc' = "returned" /\ UNCHANGED <<accepted, executed, error_msg>>
       ELSE /\ accepted' = accepted \cup {sql_query}
            /\ executed' = Append(executed, sql_query)
            /\ \E result \in QueryResults :
                  IF result = None
                  THEN outcome' = "rows" /\ pc' = "returned" /\ UNCHANGED error_msg
                  ELSE error_msg' = result /\ pc' = "handling" /\ UNCHANGED outcome
    /\ UNCHANGED <<original_sql, feedback, fixed_sql>>
    /\ ExecuteFrame

\* DataAnalysisApp._handle_sql_error up to its return or to the Generation
\* Service call of improve_sql_with_feedback
HandleSqlError ==
    /\ op = "execute_custom_query" /\ pc = "handling"
    /\ IF Contains(error_msg[1], Chars("Unknown column")) /\ ColumnRepairs(sql_query, catalog) # {}
       THEN /\ \E repaired \in ColumnRepairs(sql_query, catalog) : fixed_sql' = Some(repaired)
            /\ pc' = "fixed"
            /\ UNCHANGED <<original_sql, feedback>>
       ELSE IF /\ Contains(error_msg[1], Chars("Table"))
               /\ Contains(error_msg[1], Chars("doesn't exist"))
               /\ Len(catalog) > 0
       THEN /\ fixed_sql' = Some(SubFirstWord(sql_query, <<BT>> \o catalog[1].name \o <<BT>>))
            /\ pc' = "fixed"
            /\ UNCHANGED <<original_sql, feedback>>
       ELSE /\ original_sql' = sql_query
            /\ feedback' = error_msg[1]
            /\ \E h \in ImproveHead(sql_query, error_msg[1], catalog) :
                  IF h.path = "call"
                  THEN pc' = "calling" /\ UNCHANGED fixed_sql
                  ELSE pc' = "fixed" /\ fixed_sql' = Some(h.text)
    /\ UNCHANGED <<outcome, error_msg, accepted, executed>>
    /\ ExecuteFrame

\* DataAnalysisApp.execute_custom_query after _handle_sql_error returned
ExecuteFixedQuery ==
    /\ op = "execute_custom_query" /\ pc = "fixed"
    /\ IF fixed_sql[1] # sql_query
       THEN /\ executed' = Append(executed, fixed_sql[1])
            /\ \E result \in QueryResults :
                  outcome' = IF result = None THEN "fixed_rows" ELSE "fixed_failed"
       ELSE outcome' = "failed" /\ UNCHANGED executed
    /\ pc' = "returned"
    /\ UNCHANGED <<original_sql, feedback, fixed_sql, error_msg, accepted>>
    /\ UNCHANGED <<op, nl_request, catalog, configured, sql_query, baseline, attempt, slept, posts,
                   llm_response, returned>>
    /\ UNCHANGED nonPipelineVars

\* mcp_service.execute_sql_and_get_results
ExecuteSqlAndGetResults ==
    /\ op = "mcp_service.execute_sql_and_get_results" /\ pc = "ready"
    /\ IF ~validate_sql_query(sql_query)
       THEN outcome' = "rejected" /\ UNCHANGED <<accepted, executed>>
       ELSE /\ accepted' = accepted \cup {sql_query}
            /\ executed' = Append(executed, sql_query)
            /\ \E result \in QueryResults : outcome' = IF result = None THEN "rows" ELSE "failed"
    /\ pc' = "returned"
    /\ UNCHANGED <<original_sql, feedback, fixed_sql, error_msg>>
    /\ ExecuteFrame

\* config.execute_sql_and_get_results: a LIMIT is appended after validation
ExecuteSqlAndGetResultsLimited ==
    /\ op = "config.execute_sql_and_get_results" /\ pc = "ready"
    /\ IF ~validate_sql_query(sql_query)
       THEN outcome' = "rejected" /\ UNCHANGED <<accepted, executed>>
       ELSE /\ accepted' = accepted \cup {sql_query}
            /\ \E limit \in Limits :
                  executed' = Append(executed,
                      IF ~Contains(Upper(sql_query), Chars("LIMIT"))
                      THEN RStripSemicolons(sql_query) \o Chars(" LIMIT ") \o IntToText(limit)
                      ELSE sql_query)
            /\ \E result \in QueryResults : outcome' = IF result = None THEN "rows" ELSE "failed"
    /\ pc' = "returned"
    /\ UNCHANGED <<original_sql, feedback, fixed_sql, error_msg>>
    /\ ExecuteFrame

NextPipeline ==
    \/ GenerateSqlQuery
    \/ ImproveSqlWithFeedback
    \/ CallOllamaContent
    \/ CallOllamaStatusError
    \/ CallOllamaFormatError
    \/ CallOllamaConnectionError
    \/ CallOllamaTimeout
    \/ CallOllamaException
    \/ GenerateSqlQueryFinish
    \/ ImproveSqlWithFeedbackFinish
    \/ ExecuteCustomQuery
    \/ HandleSqlError
    \/ ExecuteFixedQuery
    \/ ExecuteSqlAndGetResults
    \/ ExecuteSqlAndGetResultsLimited

SpecPipeline == InitPipeline /\ [][NextPipeline]_vars

\* one attempt of _call_ollama, however the Generation Service answers
CallOllama ==
    \/ CallOllamaContent
    \/ CallOllamaStatusError
    \/ CallOllamaFormatError
    \/ CallOllamaConnectionError
    \/ CallOllamaTimeout
    \/ CallOllamaException

\* requests.post is given a timeout and time.sleep a fixed delay: an attempt
\* that has started comes to an end
SpecPipelineFair == SpecPipeline /\ WF_vars(CallOllama)

-----------------------------------------------------------------------------
(* Repair harness: a query and a catalog are drawn; fix_column_names is     *)
(* applied with the columns of a referenced catalog table, as the loop of   *)
(* _validate_and_fix_sql calls it, and _validate_and_fix_sql to the query   *)

\* the queries below are written with ' for the backquote in their comment
\* SELECT prodcut_name, amount FROM sales WHERE prodcut_name = 'x' ORDER BY amount
BareMisspelled ==
    Chars("SELECT prodcut_name, amount FROM sales WHERE prodcut_name = 'x' ORDER BY amount")

\* SELECT 'prodcut_name' FROM 'sales' WHERE prodcut_name IS NOT NULL LIMIT 5
QuotedAndBare ==
    Chars("SELECT ") \o <<BT>> \o Chars("prodcut_name") \o <<BT>> \o Chars(" FROM ") \o <<BT>> \o Chars("sales") \o <<BT>> \o Chars(" WHERE prodcut_name IS NOT NULL LIMIT 5")

\* SELECT 'Product_Name' FROM 'sales' LIMIT 5
CaseMisspelled ==
    Chars("SELECT ") \o <<BT>> \o Chars("Product_Name") \o <<BT>> \o Chars(" FROM ") \o <<BT>> \o Chars("sales") \o <<BT>> \o Chars(" LIMIT 5")

\* SELECT 'sales'.'product_name', 'orders'.'order_date' FROM 'sales' JOIN 'orders' ON 'sales'.'id' = 'orders'.'id' LIMIT 5
JoinQuery ==
    Chars("SELECT ") \o <<BT>> \o Chars("sales") \o <<BT>> \o Chars(".") \o <<BT>> \o Chars("product_name") \o <<BT>> \o Chars(", ") \o <<BT>> \o Chars("orders") \o <<BT>> \o Chars(".") \o <<BT>> \o Chars("order_date") \o <<BT>> \o Chars(" FROM ") \o <<BT>> \o Chars("sales") \o <<BT>> \o Chars(" JOIN ") \o <<BT>> \o Chars("orders") \o <<BT>> \o Chars(" ON ") \o <<BT>> \o Chars("sales") \o <<BT>> \o Chars(".") \o <<BT>> \o Chars("id") \o <<BT>> \o Chars(" = ") \o <<BT>> \o Chars("orders") \o <<BT>> \o Chars(".") \o <<BT>> \o Chars("id") \o <<BT>> \o Chars(" LIMIT 5")

\* SELECT s.product_name, o.order_date FROM sales s JOIN orders o ON s.id = o.id LIMIT 5
AliasedJoinQuery ==
    Chars("SELECT s.product_name, o.order_date FROM sales s JOIN orders o ON s.id = o.id LIMIT 5")

\* SELECT product_name, order_date FROM sales JOIN orders ON sales.id = orders.id LIMIT 5
PlainJoinQuery ==
    Chars("SELECT product_name, order_date FROM sales JOIN orders ON sales.id = orders.id LIMIT 5")

\* SELECT * FROM missing
MissingTableQuery ==
    Chars("SELECT * FROM missing")

\* SELECT 1
NoTableQuery ==
    Chars("SELECT 1")

\* SELECT COUNT(*) FROM 'sales' LIMIT 1
CountQuery ==
    Chars("SELECT COUNT(*) FROM ") \o <<BT>> \o Chars("sales") \o <<BT>> \o Chars(" LIMIT 1")

\* SELECT amt, AMOUNT FROM sales
AbbreviatedAndCase ==
    Chars("SELECT amt, AMOUNT FROM sales")

RepairQueries ==
    {Misspelled, WellSpelled, BareMisspelled, QuotedAndBare, CaseMisspelled, JoinQuery,
     AliasedJoinQuery, PlainJoinQuery, MissingTableQuery, NoTableQuery, CountQuery,
     AbbreviatedAndCase}

\* the baseline queries _generate_sql_from_template hands to _validate_and_fix_sql
BaselineQueries(table_schemas) ==
    UNION {generate_sql_from_template(r, table_schemas) : r \in GenerateRequests}

InitRepair ==
    /\ repair_schemas \in GenerateCatalogs
    /\ repair_sql \in RepairQueries \cup BaselineQueries(repair_schemas)
    /\ fix_table = None
    /\ fix_result = None
    /\ repair_result = None
    /\ ValidatorIdle /\ ClassifierIdle /\ TemplateIdle /\ PipelineIdle /\ RequestIdle /\ LimitIdle /\ SimilarIdle /\ SchemaIdle /\ ConnectIdle

\* the call of fix_column_names in the loop of _validate_and_fix_sql, on the
\* query as it enters the loop
FixColumnNames ==
    /\ fix_result = None
    /\ \E table_name \in extract_tables_from_sql(repair_sql) :
          /\ HasTable(repair_schemas, table_name)
          /\ \E order \in ColumnOrders(repair_sql, ColumnsOf(repair_schemas, table_name)) :
                /\ fix_table' = Some(table_name)
                /\ fix_result' = Some(fix_column_names(repair_sql, ColumnsOf(repair_schemas, table_name), order))
    /\ UNCHANGED <<repair_sql, repair_schemas, repair_result>>
    /\ UNCHANGED nonRepairVars

ValidateAndFixSql ==
    /\ repair_result = None
    /\ \E fixed \in validate_and_fix_sql(repair_sql, repair_schemas) : repair_result' = Some(fixed)
    /\ UNCHANGED <<repair_sql, repair_schemas, fix_table, fix_result>>
    /\ UNCHANGED nonRepairVars

NextRepair == FixColumnNames \/ ValidateAndFixSql

SpecRepair == InitRepair /\ [][NextRepair]_vars

-----------------------------------------------------------------------------
(* Request harness: two calls of the tool natural_language_to_sql run on    *)
(* the one LLMAnalyst of the module, their statements interleaved in any    *)
(* order                                                                    *)

ToolCalls == {1, 2}

\* OLLAMA_CONFIG['timeout'] and OLLAMA_CONFIG['model'] as the deployment sets them
ConfiguredTimeout == 120
ConfiguredModel == "qwen2.5:7b"

\* the timeout arguments the callers pass (180 is the default)
TimeoutArguments == {30, 180}

\* the model lists the Generation Service answers /api/tags with
ModelLists == {<<ConfiguredModel>>, <<"llama3", ConfiguredModel>>, <<"llama3">>, <<>>}

InitRequests ==
    /\ llm_timeout = ConfiguredTimeout
    /\ llm_model = ConfiguredModel
    /\ available_models \in ModelLists
    /\ timeout_arg \in [ToolCalls -> TimeoutArguments]
    /\ req_pc = [r \in ToolCalls |-> "check"]
    /\ original_timeout = [r \in ToolCalls |-> None]
    /\ call_timeout = [r \in ToolCalls |-> None]
    /\ call_model = [r \in ToolCalls |-> None]
    /\ ValidatorIdle /\ ClassifierIdle /\ TemplateIdle /\ PipelineIdle /\ RepairIdle /\ LimitIdle /\ SimilarIdle /\ SchemaIdle /\ ConnectIdle

\* LLMAnalyst.check_ollama_connection as natural_language_to_sql calls it: the
\* service lists its models (a configured model that is not listed is replaced
\* by the first listed one), or the check fails and the tool returns an error
CheckOllamaConnection(r) ==
    /\ req_pc[r] = "check"
    /\ \/ /\ llm_model' = IF (\A i \in 1..Len(available_models) : available_models[i] # llm_model)
                             /\ Len(available_models) > 0
                          THEN available_models[1] ELSE llm_model
          /\ req_pc' = [req_pc EXCEPT ![r] = "schemas"]
       \/ /\ req_pc' = [req_pc EXCEPT ![r] = "done"]
          /\ UNCHANGED llm_model
    /\ UNCHANGED <<llm_timeout, available_models, timeout_arg, original_timeout, call_timeout, call_model>>
    /\ UNCHANGED nonRequestVars

\* the catalog is read: without a table the tool returns an error
GetTableSchemas(r) ==
    /\ req_pc[r] = "schemas"
    /\ \E next \in {"save", "done"} : req_pc' = [req_pc EXCEPT ![r] = next]
    /\ UNCHANGED <<llm_timeout, llm_model, available_models, timeout_arg, original_timeout, call_timeout,
                   call_model>>
    /\ UNCHANGED nonRequestVars

\* original_timeout = llm_analyst.timeout
SaveTimeout(r) ==
    /\ req_pc[r] = "save"
    /\ original_timeout' = [original_timeout EXCEPT ![r] = Some(llm_timeout)]
    /\ req_pc' = [req_pc EXCEPT ![r] = "set"]
    /\ UNCHANGED <<llm_timeout, llm_model, available_models, timeout_arg, call_timeout, call_model>>
    /\ UNCHANGED nonRequestVars

\* llm_analyst.timeout = timeout
SetTimeout(r) ==
    /\ req_pc[r] = "set"
    /\ llm_timeout' = timeout_arg[r]
    /\ req_pc' = [req_pc EXCEPT ![r] = "generate"]
    /\ UNCHANGED <<llm_model, available_models, timeout_arg, original_timeout, call_timeout, call_model>>
    /\ UNCHANGED nonRequestVars

\* llm_analyst.generate_sql_query: its _call_ollama builds the payload with
\* self.model and posts it with timeout=self.timeout
GenerateSqlQueryCall(r) ==
    /\ req_pc[r] = "generate"
    /\ call_timeout' = [call_timeout EXCEPT ![r] = Some(llm_timeout)]
    /\ call_model' = [call_model EXCEPT ![r] = Some(llm_model)]
    /\ req_pc' = [req_pc EXCEPT ![r] = "restore"]
    /\ UNCHANGED <<llm_timeout, llm_model, available_models, timeout_arg, original_timeout>>
    /\ UNCHANGED nonRequestVars

\* finally: llm_analyst.timeout = original_timeout
RestoreTimeout(r) ==
    /\ req_pc[r] = "restore"
    /\ llm_timeout' = original_timeout[r][1]
    /\ req_pc' = [req_pc EXCEPT ![r] = "done"]
    /\ UNCHANGED <<llm_model, available_models, timeout_arg, original_timeout, call_timeout, call_model>>
    /\ UNCHANGED nonRequestVars

NextRequests ==
    \E r \in ToolCalls :
        \/ CheckOllamaConnection(r)
        \/ GetTableSchemas(r)
        \/ SaveTimeout(r)
        \/ SetTimeout(r)
        \/ GenerateSqlQueryCall(r)
        \/ RestoreTimeout(r)

SpecRequests == InitRequests /\ [][NextRequests]_vars

-----------------------------------------------------------------------------
(* Properties of the Safety Validator                                      *)

\* word occurs in t, in any letter case, with no word character on either side
StandaloneToken(t, word) ==
    \E i \in 1..Len(t) :
        /\ MatchAt(Upper(t), Chars(word), i)
        /\ i = 1 \/ ~IsWord(t[i - 1])
        /\ i + Len(word) > Len(t) \/ ~IsWord(t[i + Len(word)])

HasDangerousToken(t) == \E k \in 1..7 : StandaloneToken(t, dangerous_keywords[k])

HasDangerousWarning(warnings) ==
    \E i \in 1..Len(warnings) : \E k \in 1..7 : warnings[i] = WarnDangerous(dangerous_keywords[k])

\* C3: a query in which DROP, DELETE, UPDATE, INSERT, ALTER, CREATE or TRUNCATE
\* occurs as a standalone token (any letter case, any delimiter, or the start or
\* end of the text) is rejected by validate_sql_structure, validate_sql_query
\* and _validate_sql_quality; a query in which such a word occurs only inside a
\* longer identifier gets no dangerous-operation warning.
C3_DangerousTokenRejected ==
    /\ HasDangerousToken(sql) =>
          /\ structure_result # None => ~structure_result[1].is_valid
          /\ query_result # None => ~query_result[1]
          /\ quality_result # None => ~quality_result[1]
    /\ ~HasDangerousToken(sql) =>
          (structure_result # None => ~HasDangerousWarning(structure_result[1].warnings))

FatalRuleViolated(t) ==
    \/ ~StartsWith(Strip(Upper(t)), Chars("SELECT"))
    \/ ~Contains(Upper(t), Chars("FROM"))
    \/ HasDangerousToken(t)

IsWarned(result, w) == \E i \in 1..Len(result.warnings) : result.warnings[i] = w

\* C4: validate_sql_structure reports the query invalid if and only if a fatal
\* rule is violated (no leading SELECT, no FROM, a dangerous standalone token);
\* unbalanced parentheses and a missing LIMIT only add their warning.
C4_InvalidIffFatal ==
    structure_result # None =>
        /\ structure_result[1].is_valid = ~FatalRuleViolated(sql)
        /\ CountGlyph(sql, "(") # CountGlyph(sql, ")") => IsWarned(structure_result[1], WarnParens)
        /\ (~Contains(Upper(sql), Chars("LIMIT")) /\ Contains(Upper(sql), Chars("SELECT")))
              => IsWarned(structure_result[1], WarnNoLimit)

\* the five rules of the Quality Gate
GateRejects(llm_sql, template_sql) ==
    \/ Len(Strip(llm_sql)) < 10
    \/ ~Contains(Upper(llm_sql), Chars("SELECT")) \/ ~Contains(Upper(llm_sql), Chars("FROM"))
    \/ HasDangerousToken(llm_sql)
    \/ Strip(Upper(llm_sql)) = Chars("SELECT 1")
    \/ 2 * Len(llm_sql) < Len(template_sql)

\* C15: _validate_sql_quality rejects the optimized candidate exactly when it
\* is shorter than 10 characters, lacks SELECT or FROM, has a dangerous keyword
\* as a standalone token, is SELECT 1, or is shorter than half the baseline.
C15_QualityGateRules ==
    quality_result # None => (quality_result[1] = ~GateRejects(sql, TemplateForGate))

-----------------------------------------------------------------------------
(* Properties of the Intent Classifier                                     *)

SixIntents == {"basic_select", "summary_stats", "group_by_stats", "time_series", "ranking", "related_query"}

\* some trigger pattern of the k-th intent of the priority order matches the request
IntentMatches(k, request) ==
    \E p \in 1..Len(keyword_patterns[k].patterns) :
        re_search(keyword_patterns[k].patterns[p], Lower(request))

MatchingIntents(request) == {k \in 1..Len(keyword_patterns) : IntentMatches(k, request)}

\* C5: classify_query_intent returns the first intent of the priority order
\* summary_stats, group_by_stats, time_series, ranking, related_query,
\* basic_select that has a matching trigger pattern.
C5_FirstMatchingIntentWins ==
    (classify_result # None /\ MatchingIntents(natural_language_query) # {}) =>
        classify_result[1].intent =
            keyword_patterns[CHOOSE k \in MatchingIntents(natural_language_query) :
                                \A m \in MatchingIntents(natural_language_query) : k <= m].intent

\* C6: for every non-empty request the classifier returns one of the six
\* intents, and basic_select with confidence 0.0 when no trigger pattern matches.
C6_ClassifierClosure ==
    classify_result # None =>
        /\ classify_result[1].intent \in SixIntents
        /\ MatchingIntents(natural_language_query) = {} =>
              (classify_result[1].intent = "basic_select" /\ classify_result[1].confidence = 0)

\* a request without any trigger has been classified
C6_Witness ==
    /\ classify_result # None
    /\ Len(natural_language_query) > 0
    /\ MatchingIntents(natural_language_query) = {}
    /\ classify_result[1].intent = "basic_select"

\* the numbers N of the explicit top-N phrasings of a request: "top N", 前N名, 前N
TopNValues(request) ==
    LET after(i) == SubSeq(request, SpaceRunEnd(request, i) + 1, DigitRunEnd(request, SpaceRunEnd(request, i) + 1))
    IN {ParseInt(after(i + 3)) : i \in {j \in 1..Len(request) :
                                    MatchAt(Lower(request), Chars("top"), j) /\ after(j + 3) # <<>>}}
       \cup
       {ParseInt(after(i + 1)) : i \in {j \in 1..Len(request) :
                                    request[j] = qian /\ after(j + 1) # <<>>}}

\* C7: with explicit top-N phrasing ("top N", 前N名, 前N) _extract_query_params
\* returns limit_value = N, and limit_value = 10 without such phrasing.
C7_TopNOverridesLimit ==
    params_result # None =>
        IF TopNValues(natural_language_query) # {}
        THEN params_result[1].limit_value \in TopNValues(natural_language_query)
        ELSE params_result[1].limit_value = 10

-----------------------------------------------------------------------------
(* Properties of the Template Synthesizer                                  *)

FirstTableColumns == table_info[1].columns
NumericColumns == NamesOfCategory(FirstTableColumns, {"integer", "numeric"})
TextColumns == NamesOfCategory(FirstTableColumns, {"text"})
DateColumns == NamesOfCategory(FirstTableColumns, {"datetime"})
Quoted(t) == <<BT>> \o t \o <<BT>>

\* the documented prerequisites of the intent hold for the catalog
PrerequisitesMet ==
    /\ intent = "time_series" => Len(DateColumns) > 0
    /\ intent = "ranking" => Len(NumericColumns) > 0
    /\ intent = "related_query" => Len(table_info) >= 2

\* C8: for every intent and every non-empty catalog generate_from_template
\* returns a query, and the degraded SELECT * FROM <first table> LIMIT 10 is
\* never the result for an intent whose prerequisites are met.
C8_DegradedOnlyOnFailure ==
    (template_result # None /\ Len(table_info) > 0) =>
        /\ Len(template_result[1]) > 0
        /\ PrerequisitesMet => template_result[1] # DegradedQuery(table_info[1].name)

\* C9: for summary_stats the query is over the first table and has COUNT(*),
\* and AVG, MAX and MIN of exactly the first min(k, 3) numeric columns; with no
\* numeric column it has the single placeholder column NULL as 无数值列.
C9_SummaryStatsShape ==
    (template_result # None /\ Len(table_info) > 0 /\ intent = "summary_stats") =>
        /\ Contains(template_result[1], Chars("COUNT(*)"))
        /\ Contains(template_result[1], Chars("FROM ") \o Quoted(table_info[1].name))
        /\ \A i \in 1..Len(NumericColumns) :
              (i <= 3) = (/\ Contains(template_result[1], Chars("AVG(") \o Quoted(NumericColumns[i]) \o Chars(")"))
                          /\ Contains(template_result[1], Chars("MAX(") \o Quoted(NumericColumns[i]) \o Chars(")"))
                          /\ Contains(template_result[1], Chars("MIN(") \o Quoted(NumericColumns[i]) \o Chars(")")))
        /\ Len(NumericColumns) = 0 => Contains(template_result[1], NoNumericColumn)

GroupColumn ==
    IF Len(TextColumns) > 0 THEN TextColumns[1]
    ELSE IF Len(FirstTableColumns) > 0 THEN FirstTableColumns[1].name
    ELSE Chars("id")

\* C10: for group_by_stats, and for time_series on a first table without a
\* datetime column, the query groups by the first text column (else the first
\* column, else id), has COUNT(*) and SUM and AVG of the first up-to-2 numeric
\* columns, is ordered by the record count descending and has a LIMIT clause.
C10_GroupedQueryShape ==
    (/\ template_result # None
     /\ Len(table_info) > 0
     /\ intent = "group_by_stats" \/ (intent = "time_series" /\ Len(DateColumns) = 0)) =>
        /\ Contains(template_result[1], Chars("GROUP BY ") \o Quoted(GroupColumn))
        /\ Contains(template_result[1], Chars("COUNT(*)"))
        /\ \A i \in 1..Len(NumericColumns) :
              i <= 2 => /\ Contains(template_result[1], Chars("SUM(") \o Quoted(NumericColumns[i]) \o Chars(")"))
                        /\ Contains(template_result[1], Chars("AVG(") \o Quoted(NumericColumns[i]) \o Chars(")"))
        /\ Contains(template_result[1], Chars("ORDER BY ") \o <<"ji8BB0", "lu5F55", "shu6570">> \o Chars(" DESC"))
        /\ Contains(template_result[1], Chars("LIMIT "))

RankingLabel == IF Len(TextColumns) > 0 THEN TextColumns[1] ELSE FirstTableColumns[1].name

\* C11: for ranking on a first table with a numeric column the query selects
\* the first text column (else the first column) as the label and the first
\* numeric column as the value, excludes NULL values, orders by the value in the
\* extracted sort order (DESC or ASC) and ends with LIMIT <extracted limit>.
C11_RankingShape ==
    (/\ template_result # None
     /\ Len(table_info) > 0
     /\ intent = "ranking"
     /\ Len(NumericColumns) > 0
     /\ "limit_value" \in DOMAIN extracted_params) =>
        /\ Contains(template_result[1], Quoted(RankingLabel) \o Chars(" as ") \o <<"ming540D", "cheng79F0">>)
        /\ Contains(template_result[1], Quoted(NumericColumns[1]) \o Chars(" as ") \o <<"shu6570", "zhi503C">>)
        /\ Contains(template_result[1], Chars("WHERE ") \o Quoted(NumericColumns[1]) \o Chars(" IS NOT NULL"))
        /\ Contains(template_result[1], Chars("ORDER BY ") \o Quoted(NumericColumns[1]) \o <<" ">>
                                           \o Chars(extracted_params.sort_order) \o Chars("\n"))
        /\ EndsWith(template_result[1], Chars("LIMIT ") \o IntToText(extracted_params.limit_value))

-----------------------------------------------------------------------------
(* Properties of the generation pipeline and of the executing handlers     *)

\* the paths on which generate_sql_query / improve_sql_with_feedback return a
\* query as a candidate (not an input error message, not the prior query)
CandidatePaths == {"template_only", "llm_optimized", "template_kept", "cheap_path", "llm_feedback"}

\* C1: every query text that generate_sql_query or improve_sql_with_feedback
\* returns as a candidate (template-only, optimized, feedback-revised on the
\* cheap path and on the Generation Service path, safe fallback), taken exactly
\* as returned with its comment line, is structurally valid for
\* validate_sql_structure.
C1_ReturnedCandidateIsValid ==
    (op \in {"generate_sql_query", "improve_sql_with_feedback"} /\ returned # None /\ outcome \in CandidatePaths)
        => validate_sql_structure(returned[1]).is_valid

\* C2: the Query Executor is only invoked on a text that validate_sql_query has
\* accepted before (the rewrite of _handle_sql_error included), and no text
\* with a DROP/DELETE/UPDATE/INSERT/ALTER/CREATE/TRUNCATE statement is executed.
C2_ExecutedOnlyAfterValidation ==
    \A i \in 1..Len(executed) : executed[i] \in accepted /\ ~HasDangerousToken(executed[i])

\* C16: when the Generation Service answers with a text that has a dangerous
\* statement, validate_sql_structure marks the text invalid and
\* generate_sql_query returns the baseline, not the text or a query made from it.
C16_DangerousResponseDiscarded ==
    (/\ op = "generate_sql_query" /\ pc = "returned"
     /\ llm_response # None /\ HasDangerousToken(llm_response[1])) =>
        /\ ~validate_sql_structure(llm_response[1]).is_valid
        /\ returned = baseline
        /\ outcome = "template_kept"

\* what _call_ollama returns when the last attempt ended in a non-200 status,
\* a response without message content, a refused connection or a timeout
ServiceFailures ==
    {StatusErrorMessage(text) : text \in ErrorBodies} \cup {FormatErrorMessage(result) : result \in MalformedResults}
        \cup {ConnectionErrorMessage, TimeoutMessage}

\* C17: when every attempt of the Generation Service call failed,
\* generate_sql_query returns exactly the baseline it had before the call.
C17_ServiceFailureKeepsBaseline ==
    (/\ op = "generate_sql_query" /\ pc = "returned"
     /\ llm_response # None /\ llm_response[1] \in ServiceFailures) =>
        returned = baseline

\* C18: when the Generation Service call of the feedback loop failed,
\* improve_sql_with_feedback returns the prior query: original_sql, or
\* original_sql as Identifier Repair left it before the call.
C18_FeedbackFailureKeepsPrior ==
    (/\ op = "improve_sql_with_feedback" /\ pc = "returned"
     /\ llm_response # None /\ llm_response[1] \in ServiceFailures \cup {UnknownErrorMessage}) =>
        returned[1] \in {original_sql} \cup validate_and_fix_sql(original_sql, catalog)

\* the counters of _call_ollama while it runs and once it has returned
CallOllamaCounters ==
    /\ posts <= max_retries
    /\ pc = "calling" => (posts = attempt /\ attempt < max_retries /\ slept = retry_delay * attempt)
    /\ llm_response # None => (posts >= 1 /\ slept = retry_delay * (posts - 1))

\* C19: _call_ollama sends at least one and at most max_retries requests, sleeps
\* retry_delay between two attempts and never after the last one, sends nothing
\* more once it has a response, and every call returns a string.
C19_CallOllamaTerminates ==
    /\ [](CallOllamaCounters)
    /\ [][pc # "calling" => (posts' = posts /\ slept' = slept)]_vars
    /\ (pc = "calling") ~> (llm_response # None)

\* three requests timed out: two sleeps, and the timeout message is returned
C19_Witness ==
    /\ pc = "responded" /\ posts = max_retries /\ slept = retry_delay * (max_retries - 1)
    /\ llm_response = Some(TimeoutMessage)

-----------------------------------------------------------------------------
(* Properties of Identifier Repair                                         *)

\* the maximal runs of word characters of t from index from on, in order: its
\* identifiers, keywords and numbers without their quoting
RECURSIVE WordsFrom(_, _)
WordsFrom(t, from) ==
    LET S == {i \in from..Len(t) : IsWord(t[i])}
    IN IF S = {} THEN <<>>
       ELSE <<SubSeq(t, Min(S), WordRunEnd(t, Min(S)))>> \o WordsFrom(t, WordRunEnd(t, Min(S)) + 1)

Words(t) == WordsFrom(t, 1)

\* the drawn query only refers to columns of the catalog tables it references
ValidRepairInput ==
    \/ repair_schemas # <<>> /\ repair_sql \in BaselineQueries(repair_schemas)
    \/ repair_schemas = <<SalesTable, OrdersTable>> /\ repair_sql \in {JoinQuery, AliasedJoinQuery, PlainJoinQuery}
    \/ repair_schemas # <<>> /\ repair_sql \in {WellSpelled, CountQuery}

\* C12: for a query whose every column reference is a column of a catalog table
\* it references (the baseline queries of the Template Synthesizer, join queries
\* over two catalog tables), fix_column_names and _validate_and_fix_sql return
\* the identifiers of the query unchanged and there is no correction record.
C12_RepairLeavesValidQueryAlone ==
    ValidRepairInput =>
        /\ fix_result # None =>
              /\ Words(fix_result[1].fixed_sql) = Words(repair_sql)
              /\ fix_result[1].corrections = {}
        /\ repair_result # None => Words(repair_result[1]) = Words(repair_sql)

\* C13: for every identifier fix_column_names corrects, each occurrence of the
\* identifier in the query, quoted or bare, is the matched column in the result,
\* the identifier occurs nowhere in the result, and the corrections hold exactly
\* one record for it.
C13_EveryOccurrenceReplaced ==
    fix_result # None =>
        \A rec \in fix_result[1].corrections :
            /\ Len(Words(fix_result[1].fixed_sql)) = Len(Words(repair_sql))
            /\ \A i \in 1..Len(Words(repair_sql)) :
                  Words(repair_sql)[i] = rec[1] => Words(fix_result[1].fixed_sql)[i] = rec[2]
            /\ \A i \in 1..Len(Words(fix_result[1].fixed_sql)) : Words(fix_result[1].fixed_sql)[i] # rec[1]
            /\ Cardinality({r \in fix_result[1].corrections : r[1] = rec[1]}) = 1

\* prodcut_name, written quoted and bare in one query, was corrected to product_name
C13_Witness ==
    /\ repair_sql = QuotedAndBare
    /\ fix_result # None
    /\ fix_result[1].corrections = {<<Chars("prodcut_name"), Chars("product_name")>>}
    /\ Cardinality({i \in 1..Len(Words(fix_result[1].fixed_sql)) :
                       Words(fix_result[1].fixed_sql)[i] = Chars("product_name")}) = 2

\* C14: _validate_and_fix_sql returns a query over exactly the FROM/JOIN tables
\* of its input, and an input none of whose tables is in the catalog (or with
\* no table at all) comes back as it was, a LIMIT clause added or not.
C14_TablesKeptNeverReplaced ==
    repair_result # None =>
        /\ extract_tables_from_sql(repair_result[1]) = extract_tables_from_sql(repair_sql)
        /\ (\A table_name \in extract_tables_from_sql(repair_sql) : ~HasTable(repair_schemas, table_name))
              => repair_result[1] \in {repair_sql, EnsureLimit(repair_sql)}

-----------------------------------------------------------------------------
(* Properties of concurrent requests                                       *)

\* the model a request names when it runs alone: the configured one, or the
\* first listed one when the configured one is not listed
ModelWhenAlone ==
    IF Len(available_models) > 0 /\ \A i \in 1..Len(available_models) : available_models[i] # ConfiguredModel
    THEN available_models[1] ELSE ConfiguredModel

\* C20: with two natural_language_to_sql requests interleaved on the shared
\* LLMAnalyst, the Generation Service call of each request is made with the
\* request's own timeout argument and the model it would use alone, and once
\* both requests have finished llm_analyst.timeout and llm_analyst.model hold
\* the values they had before.
C20_RequestsDoNotInterfere ==
    /\ \A r \in ToolCalls :
          call_timeout[r] # None =>
              (call_timeout[r] = Some(timeout_arg[r]) /\ call_model[r] = Some(ModelWhenAlone))
    /\ (\A r \in ToolCalls : req_pc[r] = "done") =>
          (llm_timeout = ConfiguredTimeout /\ llm_model = ConfiguredModel)

-----------------------------------------------------------------------------
(* Properties of input errors                                               *)

\* mcp_service.natural_language_to_sql and config.natural_language_to_sql:
\* the answer built from what generate_sql_query returned
natural_language_to_sql(generated) == [success |-> TRUE, sql_query |-> generated]

\* C21: for an empty or whitespace-only request and for a catalog with no
\* tables, generate_sql_query reports the error without running the
\* classifier, the synthesizer or the Generation Service (no baseline is made,
\* no request is sent), and the natural_language_to_sql tools do not answer
\* success with that result as the sql_query.
C21_InputErrorsStopPipeline ==
    (/\ op = "generate_sql_query" /\ pc # "ready"
     /\ (Strip(nl_request) = <<>> \/ Len(catalog) = 0)) =>
        /\ pc = "returned" /\ outcome = "input_error"
        /\ baseline = None /\ posts = 0
        /\ ~natural_language_to_sql(returned[1]).success

-----------------------------------------------------------------------------
(* LIMIT remediation: SQLHelper.add_limit_if_missing and step 4 of          *)
(* _validate_and_fix_sql                                                    *)

\* the default of the parameter default_limit of add_limit_if_missing
default_limit == 100

\* SQLHelper.add_limit_if_missing(sql_query) with the default limit.  The lazy
\* r'ORDER BY.*?$' that began before index from ends at DollarEnd(from): the
\* end of the text or a newline that ends the text, 0 when a newline comes
\* earlier ('.' does not match it)
add_limit_if_missing(t) ==
    LET DollarEnd(from) ==
            IF \E i \in from..(Len(t) - 1) : t[i] = "\n" THEN 0
            ELSE IF Len(t) >= from /\ t[Len(t)] = "\n" THEN Len(t)
            ELSE Len(t) + 1
        clause == Chars(" LIMIT ") \o IntToText(default_limit)
        starts == {s \in 1..Len(t) : MatchAt(Upper(t), Chars("ORDER BY"), s) /\ DollarEnd(s + 8) # 0}
    IN IF Contains(Upper(t), Chars("LIMIT")) THEN t
       ELSE IF starts = {} THEN t \o clause
       ELSE SubSeq(t, 1, DollarEnd(Min(starts) + 8) - 1) \o clause
               \o SubSeq(t, DollarEnd(Min(starts) + 8), Len(t))

SelectHeads == {Chars("SELECT a FROM t"), Chars("select a from t"), Chars("SELECT credit_limit FROM t")}
OrderByClauses == {<<>>, Chars(" ORDER BY a"), Chars(" order by a DESC")}
LimitClauses == {<<>>, Chars(" LIMIT 5"), Chars(" limit 5")}
Terminators == {<<>>, Chars(";"), Chars("\n"), Chars(";\n")}

LimitQueries ==
    {head \o order_by \o limit \o terminator :
        head \in SelectHeads, order_by \in OrderByClauses, limit \in LimitClauses, terminator \in Terminators}

InitLimit ==
    /\ limit_sql \in LimitQueries
    /\ helper_result = None
    /\ ensure_result = None
    /\ ValidatorIdle /\ ClassifierIdle /\ TemplateIdle /\ PipelineIdle /\ RepairIdle /\ RequestIdle /\ SimilarIdle /\ SchemaIdle /\ ConnectIdle

AddLimitIfMissing ==
    /\ helper_result = None
    /\ helper_result' = Some(add_limit_if_missing(limit_sql))
    /\ UNCHANGED <<limit_sql, ensure_result>>
    /\ UNCHANGED nonLimitVars

EnsureLimitStep ==
    /\ ensure_result = None
    /\ ensure_result' = Some(EnsureLimit(limit_sql))
    /\ UNCHANGED <<limit_sql, helper_result>>
    /\ UNCHANGED nonLimitVars

NextLimit == AddLimitIfMissing \/ EnsureLimitStep

SpecLimit == InitLimit /\ [][NextLimit]_vars

-----------------------------------------------------------------------------
(* Properties of the LIMIT remediation                                      *)

HasLimitClause(t) == StandaloneToken(t, "LIMIT")

\* r is t with one clause LIMIT n added: right after the ORDER BY clause
\* (before a terminating semicolon) when t has one, at the end otherwise
LimitAdded(t, r, n) ==
    \E p \in 1..(Len(t) + 1) :
        /\ r = SubSeq(t, 1, p - 1) \o Chars(" LIMIT ") \o IntToText(n) \o SubSeq(t, p, Len(t))
        /\ IF Contains(Upper(t), Chars("ORDER BY"))
           THEN /\ \A i \in p..Len(t) : t[i] = ";" \/ IsSpace(t[i])
                /\ p > 1 => t[p - 1] # ";"
           ELSE p = Len(t) + 1

Remediated(t, r, n) == IF HasLimitClause(t) THEN r = t ELSE LimitAdded(t, r, n)

\* C22: a SELECT query without a LIMIT clause gets exactly one LIMIT clause
\* with the default (100 in add_limit_if_missing, 50 in step 4 of
\* _validate_and_fix_sql), right after its ORDER BY clause and before a
\* terminating semicolon, or at the end when it has no ORDER BY; a query with
\* a LIMIT clause is returned unchanged; remediating the result again changes
\* nothing.
C22_LimitRemediation ==
    /\ helper_result # None =>
          /\ Remediated(limit_sql, helper_result[1], default_limit)
          /\ add_limit_if_missing(helper_result[1]) = helper_result[1]
    /\ ensure_result # None =>
          /\ Remediated(limit_sql, ensure_result[1], 50)
          /\ EnsureLimit(ensure_result[1]) = ensure_result[1]

-----------------------------------------------------------------------------
(* Re-dispatch of generate_from_template                                    *)

\* the intents generate_from_template is entered with, the first call and
\* the calls it makes on itself, in order
RECURSIVE DispatchChain_ranking_to_time_series(_, _)
DispatchChain_ranking_to_time_series(intent0, tables) ==
    LET intent1 == IF intent0 \notin DOMAIN TEMPLATES THEN "basic_select" ELSE intent0
        columns == tables[1].columns
    IN IF Len(tables) = 0 THEN <<intent0>>
       ELSE IF intent1 = "time_series" /\ Len(NamesOfCategory(columns, {"datetime"})) = 0
       THEN <<intent0>> \o DispatchChain_ranking_to_time_series("group_by_stats", tables)
       ELSE IF intent1 = "ranking" /\ Len(NamesOfCategory(columns, {"integer", "numeric"})) = 0
       THEN <<intent0>> \o DispatchChain_ranking_to_time_series("time_series", tables)
       ELSE IF intent1 = "related_query" /\ Len(tables) < 2
       THEN <<intent0>> \o DispatchChain_ranking_to_time_series("group_by_stats", tables)
       ELSE <<intent0>>

RECURSIVE DispatchChain(_, _)
DispatchChain(intent0, tables) ==
    LET intent1 == IF intent0 \notin DOMAIN TEMPLATES THEN "basic_select" ELSE intent0
        columns == tables[1].columns
    IN IF Len(tables) = 0 THEN <<intent0>>
       ELSE IF intent1 = "time_series" /\ Len(NamesOfCategory(columns, {"datetime"})) = 0
       THEN <<intent0>> \o DispatchChain("group_by_stats", tables)
       ELSE IF intent1 = "ranking" /\ Len(NamesOfCategory(columns, {"integer", "numeric"})) = 0
       THEN <<intent0>> \o DispatchChain("basic_select", tables)
       ELSE IF intent1 = "related_query" /\ Len(tables) < 2
       THEN <<intent0>> \o DispatchChain("group_by_stats", tables)
       ELSE <<intent0>>

\* what generate_from_template can return for an intent on the catalog and the
\* parameters of the call
ResultsFor(intent0) ==
    {generate_from_template_with(intent0, table_info, extracted_params, join_key) :
        join_key \in JoinKeyChoices(table_info)}

\* C23: when the prerequisites of the intent are unmet, generate_from_template
\* calls itself exactly once, with the documented fallback intent (time_series
\* without a datetime column and related_query with fewer than two tables:
\* group_by_stats; ranking without a numeric column: basic_select), and
\* returns what that intent returns for the same catalog and parameters; no
\* call chain is longer than two.
C23_RedispatchOnce ==
    template_result # None =>
        LET chain == DispatchChain(intent, table_info)
        IN /\ Len(chain) <= 2
           /\ template_result[1] \in ResultsFor(chain[Len(chain)])
           /\ (intent = "time_series" /\ Len(DateColumns) = 0) => chain = <<"time_series", "group_by_stats">>
           /\ (intent = "ranking" /\ Len(NumericColumns) = 0) => chain = <<"ranking", "basic_select">>
           /\ (intent = "related_query" /\ Len(table_info) < 2) => chain = <<"related_query", "group_by_stats">>

C23_Witness ==
    /\ intent = "ranking" /\ Len(NumericColumns) = 0 /\ Len(FirstTableColumns) = 3
    /\ template_result # None
    /\ template_result[1] \in ResultsFor("basic_select")
    /\ template_result[1] # DegradedQuery(table_info[1].name)

-----------------------------------------------------------------------------
(* Similarity harness: find_similar_column is applied to an identifier and  *)
(* a list of valid columns                                                  *)

MaxAvailable == 2

InvalidColumns ==
    {<<"ding8BA2", "gou8D2D", "shu6570", "liang91CF">>,         \* 订购数量
     <<"ding8BA2", "dan5355", "zhuang72B6", "tai6001">>,        \* 订单状态
     Chars("prodcut_name"), Chars("AMOUNT"), Chars("name"), Chars("xyz")}

ValidColumnPool ==
    {Chars("qty"), Chars("status"), Chars("product_name"), Chars("amount"),
     <<"shu6570", "liang91CF">>,                                 \* 数量
     <<"ding8BA2", "huo8D27", "shu6570", "liang91CF">>,         \* 订货数量
     <<"ding8BA2", "dan5355", "zhuang72B6", "u51B5">>}          \* 订单状况

\* the lists of up to n distinct valid columns
RECURSIVE ValidColumnLists(_)
ValidColumnLists(n) ==
    IF n = 0 THEN {<<>>}
    ELSE ValidColumnLists(n - 1) \cup
         {Append(cs, c) : cs \in {x \in ValidColumnLists(n - 1) : Len(x) = n - 1},
                          c \in ValidColumnPool}

InitSimilar ==
    /\ lookup_column \in InvalidColumns
    /\ lookup_columns \in {cs \in ValidColumnLists(MaxAvailable) :
                                 \A i, j \in 1..Len(cs) : cs[i] = cs[j] => i = j}
    /\ similar_result = None
    /\ ValidatorIdle /\ ClassifierIdle /\ TemplateIdle /\ PipelineIdle /\ RepairIdle /\ RequestIdle /\ LimitIdle /\ SchemaIdle /\ ConnectIdle

FindSimilarColumn ==
    /\ similar_result = None
    /\ similar_result' = Some(find_similar_column(lookup_column, lookup_columns))
    /\ UNCHANGED <<lookup_column, lookup_columns>>
    /\ UNCHANGED nonSimilarVars

NextSimilar == FindSimilarColumn

SpecSimilar == InitSimilar /\ [][NextSimilar]_vars

-----------------------------------------------------------------------------
(* Properties of find_similar_column                                        *)

\* the answer of each matching strategy alone, None when it has no match
ExactMatch(word, columns) ==
    LET S == {i \in 1..Len(columns) : Lower(columns[i]) = Lower(word)}
    IN IF S = {} THEN None ELSE Some(columns[Min(S)])

ContainmentMatch(word, columns) ==
    LET S == {i \in 1..Len(columns) : \/ Contains(Lower(columns[i]), Lower(word))
                                      \/ Contains(Lower(word), Lower(columns[i]))}
    IN IF S = {} THEN None ELSE Some(columns[Min(S)])

SynonymMatch(word, columns) ==
    LET rows == {k \in 1..Len(column_mappings) : column_mappings[k].invalid = word}
        names == IF rows = {} THEN <<>> ELSE column_mappings[Min(rows)].names
        S == {k \in 1..Len(names) : InSeq(names[k], columns)}
    IN IF S = {} THEN None ELSE Some(names[Min(S)])

SimilarityMatch(word, columns) ==
    IF CloseMatches(word, columns) = {} THEN None
    ELSE Some(columns[BestCloseMatch(word, columns)])

\* the first of the answers that is a match, None when none is
FirstMatch(answers) ==
    LET S == {i \in 1..Len(answers) : answers[i] # None}
    IN IF S = {} THEN None ELSE answers[Min(S)]

\* C24: find_similar_column returns the answer of the first strategy that has
\* a match, in the order exact case-insensitive match, containment in either
\* direction, synonym dictionary, string similarity; a synonym-dictionary key
\* with a mapped name among the valid columns gets the dictionary's answer
\* even when another valid column clears the similarity threshold.
C24_StrategyOrder ==
    (similar_result # None /\ Len(lookup_columns) > 0) =>
        similar_result[1] = FirstMatch(<<ExactMatch(lookup_column, lookup_columns),
                                         ContainmentMatch(lookup_column, lookup_columns),
                                         SynonymMatch(lookup_column, lookup_columns),
                                         SimilarityMatch(lookup_column, lookup_columns)>>)

-----------------------------------------------------------------------------
(* Properties of the Feedback Repair Loop                                   *)

\* Identifier Repair changed the prior query: a text _validate_and_fix_sql can
\* return differs from the prior query by more than the added LIMIT clause
RepairChangedPrior ==
    \E f \in validate_and_fix_sql(original_sql, catalog) : f \notin {original_sql, EnsureLimit(original_sql)}

\* C25: with a non-empty prior query and non-empty feedback,
\* improve_sql_with_feedback returns without a Generation Service call (under
\* its comment line, the repaired query) exactly when the feedback contains
\* "Unknown column" and Identifier Repair changed the prior query; in every
\* other case it calls the Generation Service and returns the response after
\* Identifier Repair.
C25_CheapPathWithoutCall ==
    (/\ op = "improve_sql_with_feedback" /\ pc = "returned"
     /\ Strip(original_sql) # <<>> /\ Strip(feedback) # <<>>) =>
        IF Contains(feedback, Chars("Unknown column")) /\ RepairChangedPrior
        THEN /\ posts = 0 /\ llm_response = None
             /\ \E f \in validate_and_fix_sql(original_sql, catalog) : returned[1] = AutoFixComment \o f
        ELSE /\ posts >= 1 /\ llm_response # None
             /\ returned[1] \in improve_sql_with_llm_feedback(llm_response[1], feedback, catalog)

-----------------------------------------------------------------------------
(* Properties of the extracted sort order                                   *)

\* the phrasings of inferiority, minimum and ascending order: lowest, least,
\* smallest, ascending
InferiorityPhrases ==
    {<<"zui6700", "di4F4E">>, <<"zui6700", "shao5C11">>, <<"zui6700", "xiao5C0F">>, <<"sheng5347", "xu5E8F">>}

\* C26: _extract_query_params returns sort_order ASC exactly when the request
\* has a lowest / least / smallest / ascending phrasing and DESC otherwise; a
\* request for descending or reverse order keeps DESC.
C26_SortOrderFlip ==
    params_result # None =>
        params_result[1].sort_order =
            (IF \E p \in InferiorityPhrases : Contains(natural_language_query, p) THEN "ASC" ELSE "DESC")

-----------------------------------------------------------------------------
(* Properties of the classifier's confidence                                *)

\* C27: classify_query_intent reports confidence 0.8 (8 tenths) exactly when
\* a trigger pattern of one of the six intents, the lookup patterns of
\* basic_select included, matches the request, and 0.0 otherwise; the intent
\* it returns is the same whatever confidence the loop starts with.
C27_ConfidenceOnAnyHit ==
    classify_result # None =>
        /\ classify_result[1].confidence =
              (IF MatchingIntents(natural_language_query) # {} THEN 8 ELSE 0)
        /\ classify_result[1].intent =
              ClassifyLoop(Lower(natural_language_query), 1,
                           [matched_intent |-> "basic_select", confidence |-> 8]).matched_intent

-----------------------------------------------------------------------------
(* Schema harness: DatabaseManager.get_table_schema on a table whose        *)
(* columns are declared with the given types                                *)

MaxDeclaredColumns == 2

DeclaredTypes ==
    {Chars("INTEGER"), Chars("BIGINT"), Chars("FLOAT"), Chars("DECIMAL(10, 2)"), Chars("DOUBLE"),
     Chars("VARCHAR(50)"), Chars("TEXT"), Chars("DATE"), Chars("TIMESTAMP"), Chars("BOOLEAN"),
     Chars("BLOB"), Chars("POINT")}

\* the column at position i of the table is named DeclaredNames[i]
DeclaredNames == <<Chars("id"), Chars("c2"), Chars("c3")>>

RECURSIVE DeclaredColumnLists(_)
DeclaredColumnLists(n) ==
    IF n = 0 THEN {<<>>}
    ELSE DeclaredColumnLists(n - 1) \cup
         {Append(cs, [name |-> DeclaredNames[n], type |-> ty, primary_key |-> (n = 1)]) :
             cs \in {x \in DeclaredColumnLists(n - 1) : Len(x) = n - 1}, ty \in DeclaredTypes}

\* the category get_table_schema derives from str(column['type']).lower()
CategoryOfType(col_type) ==
    IF Contains(col_type, Chars("int")) THEN "integer"
    ELSE IF Contains(col_type, Chars("float")) \/ Contains(col_type, Chars("decimal"))
            \/ Contains(col_type, Chars("double")) THEN "numeric"
    ELSE IF Contains(col_type, Chars("char")) \/ Contains(col_type, Chars("text")) THEN "text"
    ELSE IF Contains(col_type, Chars("date")) \/ Contains(col_type, Chars("time")) THEN "datetime"
    ELSE IF Contains(col_type, Chars("bool")) THEN "boolean"
    ELSE "other"

InitSchema ==
    /\ declared_columns \in DeclaredColumnLists(MaxDeclaredColumns)
    /\ schema_path = ""
    /\ schema_result = None
    /\ ValidatorIdle /\ ClassifierIdle /\ TemplateIdle /\ PipelineIdle /\ RepairIdle /\ RequestIdle /\ LimitIdle /\ SimilarIdle /\ ConnectIdle

\* get_table_schema: the inspector lists the columns; column_info gets its
\* category
GetTableSchemaByInspector ==
    /\ schema_result = None
    /\ Len(declared_columns) > 0
    /\ schema_path' = "inspector"
    /\ schema_result' = Some([i \in 1..Len(declared_columns) |->
                                [name |-> declared_columns[i].name, type |-> declared_columns[i].type,
                                 primary_key |-> declared_columns[i].primary_key,
                                 category |-> CategoryOfType(Lower(declared_columns[i].type))]])
    /\ UNCHANGED declared_columns
    /\ UNCHANGED nonSchemaVars

\* get_table_schema: the inspector raises or lists no column, and the
\* DESCRIBE query answers with one row per column (a descriptor without
\* category)
GetTableSchemaByDescribe ==
    /\ schema_result = None
    /\ schema_path' = "describe"
    /\ schema_result' = Some([i \in 1..Len(declared_columns) |->
                                [name |-> declared_columns[i].name, type |-> declared_columns[i].type,
                                 primary_key |-> declared_columns[i].primary_key]])
    /\ UNCHANGED declared_columns
    /\ UNCHANGED nonSchemaVars

\* get_table_schema: the inspector raises or lists no column, and the
\* DESCRIBE query fails or answers with an error column
GetTableSchemaFailed ==
    /\ schema_result = None
    /\ schema_path' = "failed"
    /\ schema_result' = Some(<<>>)
    /\ UNCHANGED declared_columns
    /\ UNCHANGED nonSchemaVars

NextSchema == GetTableSchemaByInspector \/ GetTableSchemaByDescribe \/ GetTableSchemaFailed

SpecSchema == InitSchema /\ [][NextSchema]_vars

-----------------------------------------------------------------------------
(* Properties of the column descriptors                                     *)

ColumnCategories == {"integer", "numeric", "text", "datetime", "boolean", "other"}

\* the type text has one of the words
HasAny(col_type, words) == \E w \in words : Contains(Lower(col_type), Chars(w))

\* C28: every column descriptor get_table_schema returns, on the inspector
\* path and on the DESCRIBE path, has a category among integer, numeric, text,
\* datetime, boolean, other, given by the first rule that matches the
\* lower-cased declared type: int; float, decimal or double; char or text;
\* date or time; bool; otherwise other.
C28_EveryDescriptorHasCategory ==
    schema_result # None =>
        \A i \in 1..Len(schema_result[1]) :
            LET descriptor == schema_result[1][i]
            IN /\ "category" \in DOMAIN descriptor
               /\ descriptor.category \in ColumnCategories
               /\ descriptor.category =
                     (IF HasAny(descriptor.type, {"int"}) THEN "integer"
                      ELSE IF HasAny(descriptor.type, {"float", "decimal", "double"}) THEN "numeric"
                      ELSE IF HasAny(descriptor.type, {"char", "text"}) THEN "text"
                      ELSE IF HasAny(descriptor.type, {"date", "time"}) THEN "datetime"
                      ELSE IF HasAny(descriptor.type, {"bool"}) THEN "boolean"
                      ELSE "other")

-----------------------------------------------------------------------------
(* Properties of the quoting Identifier Repair leaves                       *)

\* C29: after fix_column_names, on a query without doubled backticks, no
\* identifier is wrapped in doubled or nested backticks (a correction that
\* only changes the letter case and corrections whose replacement contains
\* another corrected identifier included), and the result is the same in
\* whatever order the extracted identifiers are processed.
C29_RepairKeepsQuoting ==
    (fix_result # None /\ ~Contains(repair_sql, <<BT, BT>>)) =>
        /\ ~Contains(fix_result[1].fixed_sql, <<BT, BT>>)
        /\ \A order \in ColumnOrders(repair_sql, ColumnsOf(repair_schemas, fix_table[1])) :
              fix_column_names(repair_sql, ColumnsOf(repair_schemas, fix_table[1]), order).fixed_sql
                  = fix_result[1].fixed_sql

-----------------------------------------------------------------------------
(* Connector harness: connect_with_retry of start_data_analysis_mcp.py,     *)
(* every connection attempt failing, or succeeding and closing later        *)

INITIAL_BACKOFF == 1
MAX_BACKOFF == 600

\* the failures the harness follows connect_with_retry through
MaxReconnectAttempts == 11

InitConnect ==
    /\ reconnect_attempt = 0
    /\ backoff = INITIAL_BACKOFF
    /\ retry_pc = "while"
    /\ sleeps = <<>>
    /\ connections = 0
    /\ ValidatorIdle /\ ClassifierIdle /\ TemplateIdle /\ PipelineIdle /\ RepairIdle /\ RequestIdle /\ LimitIdle /\ SimilarIdle /\ SchemaIdle

\* the top of the loop body: the sleep before a reconnection, then the call
\* of connect_to_server
SleepBeforeReconnect ==
    /\ retry_pc = "while"
    /\ sleeps' = IF reconnect_attempt > 0 THEN Append(sleeps, backoff) ELSE sleeps
    /\ retry_pc' = "connecting"
    /\ UNCHANGED <<reconnect_attempt, backoff, connections>>
    /\ UNCHANGED nonConnectVars

\* the except branch with the delay doubled without the cap
ExceptBranch_uncapped ==
    /\ reconnect_attempt < MaxReconnectAttempts
    /\ reconnect_attempt' = reconnect_attempt + 1
    /\ backoff' = backoff * 2
    /\ retry_pc' = "while"

\* the except branch of connect_with_retry
ExceptBranch ==
    /\ reconnect_attempt < MaxReconnectAttempts
    /\ reconnect_attempt' = reconnect_attempt + 1
    /\ backoff' = (IF backoff * 2 < MAX_BACKOFF THEN backoff * 2 ELSE MAX_BACKOFF)
    /\ retry_pc' = "while"

\* connect_to_server: websockets.connect raises
ConnectFails ==
    /\ retry_pc = "connecting"
    /\ ExceptBranch
    /\ UNCHANGED <<sleeps, connections>>
    /\ UNCHANGED nonConnectVars

\* connect_to_server: the connection is established and the pipes run
ConnectSucceeds ==
    /\ retry_pc = "connecting"
    /\ retry_pc' = "open"
    /\ connections' = connections + 1
    /\ UNCHANGED <<reconnect_attempt, backoff, sleeps>>
    /\ UNCHANGED nonConnectVars

\* connect_to_server: the connection closes or a pipe fails, and the
\* exception reaches connect_with_retry
ConnectionCloses ==
    /\ retry_pc = "open"
    /\ ExceptBranch
    /\ UNCHANGED <<sleeps, connections>>
    /\ UNCHANGED nonConnectVars

NextConnect == SleepBeforeReconnect \/ ConnectFails \/ ConnectSucceeds \/ ConnectionCloses

SpecConnect == InitConnect /\ [][NextConnect]_vars

-----------------------------------------------------------------------------
(* Properties of the reconnect delay                                        *)

RECURSIVE PowerOfTwo(_)
PowerOfTwo(k) == IF k = 0 THEN 1 ELSE 2 * PowerOfTwo(k - 1)

\* min(2^k, MAX_BACKOFF)
CappedDelay(k) == IF PowerOfTwo(k) < MAX_BACKOFF THEN PowerOfTwo(k) ELSE MAX_BACKOFF

\* the delay is capped, there was no sleep before the first attempt, and the
\* sleep before the k-th reconnection lasted min(2^k, 600) seconds
ReconnectDelays ==
    /\ INITIAL_BACKOFF <= backoff /\ backoff <= MAX_BACKOFF
    /\ retry_pc \in {"while", "connecting", "open"}
    /\ Len(sleeps) = (IF retry_pc = "while" /\ reconnect_attempt > 0 THEN reconnect_attempt - 1
                      ELSE reconnect_attempt)
    /\ \A k \in 1..Len(sleeps) : sleeps[k] = CappedDelay(k)

\* each failure counts one and doubles the delay up to the cap; the delay
\* never decreases, whether the connection had been established or not
ReconnectStep ==
    /\ backoff' >= backoff
    /\ reconnect_attempt' \in {reconnect_attempt, reconnect_attempt + 1}
    /\ (retry_pc \in {"connecting", "open"} /\ retry_pc' = "while") =>
          /\ reconnect_attempt' = reconnect_attempt + 1
          /\ backoff' = (IF 2 * backoff < MAX_BACKOFF THEN 2 * backoff ELSE MAX_BACKOFF)
    /\ retry_pc' # "while" => (reconnect_attempt' = reconnect_attempt /\ backoff' = backoff)

\* C30: in connect_with_retry INITIAL_BACKOFF (1) <= backoff <= MAX_BACKOFF
\* (600) at every point; each failed connection adds one to reconnect_attempt
\* and sets backoff to min(2 * backoff, 600); there is no wait before the
\* first attempt and the wait before the k-th reconnection is min(2^k, 600)
\* seconds; backoff never decreases, also after a connection that was
\* established and closed later; the loop has no exit.
C30_CappedBackoffNeverReset ==
    [](ReconnectDelays) /\ [][ReconnectStep]_vars

\* the tenth reconnection, with the delay at its cap, after a connection
\* that had been established
C30_Witness ==
    /\ retry_pc = "connecting" /\ reconnect_attempt = 10
    /\ backoff = MAX_BACKOFF /\ Len(sleeps) = 10 /\ sleeps[10] = MAX_BACKOFF /\ sleeps[9] = 512
    /\ connections >= 1

====
